---- MODULE Spec2Model ----
(***************************************************************************)
(* A model of nutcli's task execution and shell-command subsystem:         *)
(*   - nutcli/tasks.py       Task, TaskList                                *)
(*   - nutcli/decorators.py  Identity, IgnoreErrors, LogExecution,         *)
(*                           SideEffect, Timeout                           *)
(*   - nutcli/shell.py       Shell, ShellEnvironment, ShellOutputPipe,     *)
(*                           ShellLoggerPipe                               *)
(*   - nutcli/runner.py      Runner                                        *)
(*                                                                         *)
(* The specifications that share the module:                               *)
(*   Spec       one TaskList, executed any number of times                 *)
(*   SpecShell  one Shell and decorated callables, called any number of    *)
(*              times, with the process-wide toggles of the decorators     *)
(*   SpecProc   one Shell, its options, its environment and the outcome    *)
(*              of the subprocess                                          *)
(*   SpecEnv    a heap of Shell / ShellEnvironment objects that are        *)
(*              cloned and mutated                                         *)
(*   SpecMut    one TaskList whose handlers change the list and the        *)
(*              enabled flags of its children while it runs                *)
(*   SpecTask   one Task.execute, or one call under Timeout, with the      *)
(*              alarm signal delivered at any point while armed            *)
(*   SpecNest   tasks and task lists executed inside one another, and      *)
(*              the prefixes of their log lines                            *)
(*   SpecPure   Timeout.__to_seconds and Task.__real_args applied to       *)
(*              inputs drawn in the initial state                          *)
(*   SpecSet    ShellEnvironment.set applied to two environments           *)
(*   SpecRun    Runner.execute applied to inputs drawn in the initial      *)
(*              state                                                      *)
(*   SpecList   a TaskList and a native list given the same operations     *)
(*   SpecPipe   a ShellOutputPipe or ShellLoggerPipe, its writers, its     *)
(*              reader threads and the thread that closes it               *)
(*   SpecAgain  one TaskList executed again after each of its runs         *)
(*   SpecAlarm  a Timeout-wrapped callable or TaskList that makes          *)
(*              Timeout-wrapped calls, and the process's one alarm         *)
(*   SpecParent tasks and task lists, enabled or not, executed with and    *)
(*              without a parent                                           *)
(*   SpecLines  the reader of a ShellOutputPipe cutting a byte stream      *)
(*              into lines                                                 *)
(***************************************************************************)
EXTENDS Integers, Sequences, FiniteSets, TLC

\* ------------------------------------------------------------------ bounds

\* Longest child list of the TaskList.
MaxTasks == 3

\* Python's None.
None == "None"

\* ------------------------------------------------------------- state

VARIABLES
    \* --- Spec, SpecMut: TaskList ---
    tasks,          \* the Task objects that are or were children, by identity
    listed,         \* TaskList.tasks: the children (identities), in list order
    self_ignore,    \* TaskList.ignore_errors (construction time)
    duration,       \* TaskList.duration (construction time)
    pc,             \* where the run of the list stands
    wrap_ignore,    \* ignore_errors in force for this execute() of the list
    enabled_tasks,  \* _run_tasks: positions (in tasks) of the enabled children
    idx,            \* _run_tasks: index (from 1) of the child being processed
    error,          \* _run_tasks: the recorded error, or None
    trace,          \* log lines and handler invocations of this run, in order
    calls,          \* per child position: handler invocations in this run
    result,         \* how execute() ended for its caller
    \* --- SpecShell, SpecProc, SpecEnv: decorators and Shell ---
    class_attrs,    \* class attributes of LogExecution and SideEffect
    heap,           \* the objects: Shell, ShellEnvironment, dict
    spc,            \* where the Shell call stands
    call,           \* the Shell call in progress: arguments and locals
    proc,           \* the subprocess of the call
    slog,           \* log lines and process events of the call, in order
    sresult,        \* how Shell.__call__ ended for its caller
    wrapped,        \* the call of a decorated callable in progress
    objs,           \* the objects the program holds a name for (heap refs)
    target,         \* index in objs of the object last mutated (0: none)
    \* --- SpecTask: one Task, or one callable under Timeout ---
    ttask,          \* the Task: its stored fields
    tcall,          \* the call in progress: where it stands, what is in force
    alarm,          \* the process's ITIMER_REAL and SIGALRM handler
    tresult,        \* how the call ended for its caller
    \* --- SpecNest, SpecParent: nested tasks ---
    nodes,          \* the tasks: kind, tag and _parent
    stack,          \* the tasks being executed, outermost first
    lastline,       \* the last log line: who logged it, with which prefix
    \* --- SpecPure, SpecLines: functions of their arguments ---
    pin,            \* the arguments
    pout,           \* the result
    \* --- SpecPipe: output pipes and their reader threads ---
    owner,          \* the object closed: its class, its pipes, where close is
    pipes,          \* per ShellOutputPipe: the byte stream and the reader
    \* --- SpecAlarm: Timeout-wrapped calls inside one another ---
    sigalrm,        \* the process: its SIGALRM handler and its ITIMER_REAL
    ocall,          \* the outer call: its wrapper, and the callable's locals
    icall,          \* the call made by the outer callable, while it lasts
    clock           \* seconds since the outer call set its timer

taskVars ==
    <<tasks, listed, self_ignore, duration, pc, wrap_ignore, enabled_tasks,
      idx, error, trace, calls, result>>

shellVars ==
    <<class_attrs, heap, spc, call, proc, slog, sresult, wrapped, objs,
      target>>

timedVars == <<ttask, tcall, alarm, tresult>>

nestVars == <<nodes, stack, lastline>>

pureVars == <<pin, pout>>

pipeVars == <<owner, pipes>>

alarmVars == <<sigalrm, ocall, icall, clock>>

restVars == <<timedVars, nestVars, pureVars, pipeVars, alarmVars>>

vars == <<taskVars, shellVars, restVars>>

\* ------------------------------------------------------- decorators.py

\* An exception object: its class and the child (position in tasks) whose
\* execute raised it.  KeyboardInterrupt and SystemExit are BaseExceptions
\* that are not Exceptions.
ExcClasses == {"Exception", "ValueError", "BaseException"}

IsException(cls) == cls \in {"Exception", "ValueError", "TimeoutError"}

Exc(cls, origin) == [cls |-> cls, origin |-> origin]

\* No exception (`error = None` in _run_tasks).
NoError == Exc(None, 0)

\* The outcome of a call: it returns, or raises an exception object.
Returned == [kind |-> "return"]

Raised(e) == [kind |-> "raise", exc |-> e]

\* No call has ended yet.
NoResult == [kind |-> "none"]

\* decorators.IgnoreErrors: `except Exception: return None`.
IgnoreErrors(outcome) ==
    IF outcome.kind = "raise" /\ IsException(outcome.exc.cls)
    THEN Returned
    ELSE outcome

\* decorators.Identity.
Identity(outcome) == outcome

\* ------------------------------------------------- decorators.Timeout

\* Most components of a duration string.
MaxParts == 2

\* Python values a timeout may be: None, an int, a str, something else.
NoneValue == [type |-> "NoneType"]

IntValue(v) == [type |-> "int", v |-> v]

\* A duration string, by the matches re.findall finds in it: each a number
\* (its value in thousandths, and how many dots its text has) and a unit
\* ("" when the text names none).
StrValue(parts) == [type |-> "str", parts |-> parts]

Units == {"hours", "minutes", "seconds", ""}

Numbers ==
    {[milli |-> m, dots |-> 0] : m \in {0, 1000, 2000}}
    \cup {[milli |-> m, dots |-> d] :
             m \in {0, 17, 500, 1000, 1500, 2000}, d \in {1, 2}}

Components == [num : Numbers, unit : Units]

\* float(text): a text with more than one dot is no number.
FloatOk(num) == num.dots <= 1

\* int(text): only a text of digits is an int literal.
IntOk(num) == num.dots = 0

\* int(float(time) * factor), in exact arithmetic.
Truncated(num, factor) == (num.milli * factor) \div 1000

\* One turn of the loop of Timeout.__to_seconds; "error" when int() or
\* float() raises ValueError.
ComponentSeconds(c) ==
    IF c.unit = "hours"
    THEN IF FloatOk(c.num) THEN IntValue(Truncated(c.num, 3600))
         ELSE [type |-> "error"]
    ELSE IF c.unit = "minutes"
    THEN IF FloatOk(c.num) THEN IntValue(Truncated(c.num, 60))
         ELSE [type |-> "error"]
    ELSE IF IntOk(c.num) THEN IntValue(c.num.milli \div 1000)
         ELSE [type |-> "error"]

RECURSIVE SumSeconds(_)
\* The loop of Timeout.__to_seconds over the matches, from the first on:
\* the sum, or "error" at the first component that raises.
SumSeconds(parts) ==
    IF parts = <<>> THEN IntValue(0)
    ELSE LET head == ComponentSeconds(parts[1])
             tail == SumSeconds(Tail(parts))
         IN IF head.type = "error" \/ tail.type = "error"
            THEN [type |-> "error"]
            ELSE IntValue(head.v + tail.v)

\* A result: the value returned, or the exception raised.
Ok(v) == [ok |-> TRUE, value |-> v]

Fails(cls) == [ok |-> FALSE, exc |-> cls]

\* Timeout.__to_seconds(timeout)
ToSeconds(timeout) ==
    IF timeout.type = "NoneType" THEN Ok(NoneValue)
    ELSE IF timeout.type = "int" THEN Ok(timeout)
    ELSE IF timeout.type # "str" THEN Fails("ValueError")
    ELSE IF timeout.parts = <<>> THEN Fails("ValueError")
    ELSE LET sum == SumSeconds(timeout.parts)
         IN IF sum.type = "error" THEN Fails("ValueError") ELSE Ok(sum)

\* nutcli.exceptions.TimeoutError(timeout, message)
TimeoutError(timeout, message) ==
    [cls |-> "TimeoutError", timeout |-> timeout, message |-> message]

\* The message is kept as given, None included.
TimeoutInitNoDefault(timeout, message) ==
    [timeout |-> timeout, message |-> message, seconds |-> ToSeconds(timeout)]

\* Timeout.__init__(timeout, message)
TimeoutInit(timeout, message) ==
    [timeout |-> timeout,
     message |-> IF message # None THEN message ELSE "Operation timed out.",
     seconds |-> ToSeconds(timeout)]

\* Timeout.__call__: `if not self.seconds: return function`.
Truthy(seconds) == seconds.type = "int" /\ seconds.v # 0

\* ------------------------------------------------------------ tasks.py

\* What a handler does when it is invoked.
HandlerOutcomes == {"ok", "Exception", "BaseException"}

\* Task.__init__ / Task.__call__: the fields of a child the run reads.
\* handler is "fn" once a function was bound, None before.
TaskConfigs ==
    [enabled : BOOLEAN, always : BOOLEAN, ignore_errors : BOOLEAN,
     handler : {"fn", None}]

\* The keyword overrides of an execute call: a dict with at most the key
\* ignore_errors.
NoOverrides == <<>>

Override(b) == [k \in {"ignore_errors"} |-> b]

Overrides == {NoOverrides} \cup {Override(b) : b \in BOOLEAN}

\* The construction-time value, whatever the overrides.
StoredIgnore(task, overrides) == task.ignore_errors

\* Task.__real_handler: kwargs = {**self.__dict__, **overrides}, then
\* kwargs['ignore_errors'].
EffectiveIgnore(task, overrides) ==
    IF "ignore_errors" \in DOMAIN overrides
    THEN overrides["ignore_errors"]
    ELSE task.ignore_errors

\* What inspect.getfullargspec tells of a handler: args (the positional
\* parameters; of a bound method, `self` included), kwonlyargs, and whether
\* it takes **kwargs.
Signatures ==
    [args : {<<>>, <<"task">>, <<"a">>, <<"a", "task">>, <<"task", "a">>,
             <<"self">>, <<"self", "task">>, <<"self", "a">>,
             <<"self", "a", "task">>, <<"self", "task", "a">>},
     kwonly : {{}, {"task"}},
     varkw : BOOLEAN]

\* Most positional arguments bound to a handler.
MaxArgs == 2

\* What Task.__call__(function, *args, **kwargs) bound: the positional
\* values and the keyword values.
BoundArgs == {[i \in 1..n |-> "bound"] : n \in 0..MaxArgs}

BoundKwargs ==
    {<<>>, [k \in {"task"} |-> "bound"], [k \in {"x"} |-> "bound"],
     [k \in {"task", "x"} |-> "bound"]}

\* list.index(x), from 0.
IndexOf(seq, x) ==
    (CHOOSE i \in 1..Len(seq) :
        seq[i] = x /\ \A j \in 1..(i - 1) : seq[j] # x) - 1

Contains(seq, x) == \E i \in 1..Len(seq) : seq[i] = x

\* Task.__real_args for a bound handler: (args, kwargs) to call it with.
RealArgs(sig, args, kwargs) ==
    IF Contains(sig.args, "task") /\ Len(args) > IndexOf(sig.args, "task")
    THEN [args |-> args, kwargs |-> kwargs]
    ELSE IF "task" \in DOMAIN kwargs
    THEN [args |-> args, kwargs |-> kwargs]
    ELSE IF Contains(sig.args, "task") \/ sig.varkw
    THEN [args |-> args, kwargs |-> [k \in {"task"} |-> "self"] @@ kwargs]
    ELSE [args |-> args, kwargs |-> kwargs]

\* The bound handler, invoked: what it does is the environment's choice.
HandlerCall(p, out) ==
    IF out = "ok" THEN Returned ELSE Raised(Exc(out, p))

\* Task.__real_handler applied: IgnoreErrors around the handler when
\* ignore_errors is in force.
RealHandlerCall(task, p, overrides, out) ==
    IF EffectiveIgnore(task, overrides)
    THEN IgnoreErrors(HandlerCall(p, out))
    ELSE HandlerCall(p, out)

\* Task.execute(parent, **overrides) of the child at position p.
\* invoked: whether the handler was called.
TaskExecute(task, p, overrides, out) ==
    IF ~task.enabled
    THEN [invoked |-> FALSE, outcome |-> Returned]
    ELSE IF task.handler = None
    THEN [invoked |-> FALSE, outcome |-> Raised(Exc("ValueError", p))]
    ELSE [invoked |-> TRUE,
          outcome |-> RealHandlerCall(task, p, overrides, out)]

\* A snapshot that takes every child, enabled or not.
EveryTask(ls, ts) == ls

\* _run_tasks: enabled_tasks = [x for x in self.tasks if x.enabled]
EnabledTasks(ls, ts) == SelectSeq(ls, LAMBDA p : ts[p].enabled)

\* What a handler may do to the list it runs in: nothing, flip the enabled
\* flag of a child, or remove a child from the list.
NoMutation == [op |-> "none"]

Mutations(ts) ==
    {NoMutation}
    \cup {[op |-> o, task |-> j] : o \in {"flip", "remove"}, j \in 1..Len(ts)}

\* task.enabled = not task.enabled
MutateTasks(ts, mut) ==
    IF mut.op = "flip"
    THEN [ts EXCEPT ![mut.task].enabled = ~@]
    ELSE ts

\* TaskList.remove(task), when the task is in the list.
MutateList(ls, mut) ==
    IF mut.op = "remove"
    THEN SelectSeq(ls, LAMBDA p : p # mut.task)
    ELSE ls

\* Entries of the trace.
Header(i, n, p, suffix) ==
    [kind |-> "header", idx |-> i, total |-> n, task |-> p, suffix |-> suffix]

\* The handler of child p was invoked and did `out`.
CallEvent(p, out) == [kind |-> "call", task |-> p, out |-> out]

ErrorLine(p, e) == [kind |-> "error", task |-> p, exc |-> e]

SummaryLine(e) == [kind |-> "summary", exc |-> e]

\* 'Finished in HH:MM:SS'
DurationLine == [kind |-> "duration"]

\* The child being processed.
N == Len(enabled_tasks)

CurPos == enabled_tasks[idx]

CurTask == tasks[CurPos]

\* Trace and call count after task.execute of the current child; `after`
\* is what is logged once it has ended.
AfterExecute(header, r, out, after) ==
    /\ trace' = trace \o <<header>>
                      \o (IF r.invoked THEN <<CallEvent(CurPos, out)>> ELSE <<>>)
                      \o after
    /\ calls' = IF r.invoked
                THEN [calls EXCEPT ![CurPos] = @ + 1]
                ELSE calls

\* Task.execute of the TaskList itself: its handler is _run_tasks, wrapped
\* in IgnoreErrors when ignore_errors is in force.  `outcome` is how
\* _run_tasks ended.
ListExecuteEnds(outcome) ==
    /\ result' = IF wrap_ignore THEN IgnoreErrors(outcome) ELSE outcome
    /\ pc' = "done"

\* A list that keeps the error of its last run.
ExecuteStartKeepingError(overrides) ==
    /\ pc \in {"idle", "done"}
    /\ wrap_ignore' = EffectiveIgnore([ignore_errors |-> self_ignore], overrides)
    /\ enabled_tasks' = EnabledTasks(listed, tasks)
    /\ idx' = 1
    /\ error' = error
    /\ trace' = <<>>
    /\ calls' = [p \in 1..Len(tasks) |-> 0]
    /\ result' = NoResult
    /\ pc' = "loop"
    /\ UNCHANGED <<tasks, listed, self_ignore, duration>>

\* TaskList.execute(**overrides) up to the first iteration of _run_tasks:
\* `error = None`, the snapshot of the enabled children, a new log.
ExecuteStart(overrides) ==
    /\ pc \in {"idle", "done"}
    /\ wrap_ignore' = EffectiveIgnore([ignore_errors |-> self_ignore], overrides)
    /\ enabled_tasks' = EnabledTasks(listed, tasks)
    /\ idx' = 1
    /\ error' = NoError
    /\ trace' = <<>>
    /\ calls' = [p \in 1..Len(tasks) |-> 0]
    /\ result' = NoResult
    /\ pc' = "loop"
    /\ UNCHANGED <<tasks, listed, self_ignore, duration>>

Execute(overrides) ==
    /\ ExecuteStart(overrides)
    /\ UNCHANGED <<shellVars, restVars>>

\* The same list executed again; how the run before ended is kept.
ExecuteAgain(overrides) ==
    /\ pc = "done"
    /\ ExecuteStart(overrides)
    /\ pout' = result
    /\ UNCHANGED pin
    /\ UNCHANGED <<shellVars, timedVars, nestVars, pipeVars, alarmVars>>

\* _run_tasks, one iteration: `error is not None and not task.always`.
SkipOnError ==
    /\ pc = "loop" /\ idx <= N
    /\ error # NoError /\ ~CurTask.always
    /\ trace' = trace \o <<Header(idx, N, CurPos, "skipped on error")>>
    /\ idx' = idx + 1
    /\ UNCHANGED <<tasks, listed, self_ignore, duration, pc, wrap_ignore,
                   enabled_tasks, error, calls, result>>
    /\ UNCHANGED <<shellVars, restVars>>

\* What an invoked handler did to the list and its children.
HandlerMutates(r, mut) ==
    /\ tasks' = IF r.invoked THEN MutateTasks(tasks, mut) ELSE tasks
    /\ listed' = IF r.invoked THEN MutateList(listed, mut) ELSE listed

\* _run_tasks, one iteration: `error is not None and task.always`; the child
\* is executed with ignore_errors=True and outside any try block.
FinalizeDoing(out, mut) ==
    /\ pc = "loop" /\ idx <= N
    /\ error # NoError /\ CurTask.always
    /\ LET r == TaskExecute(CurTask, CurPos, Override(TRUE), out) IN
       /\ AfterExecute(Header(idx, N, CurPos, "finalizing"), r, out, <<>>)
       /\ HandlerMutates(r, mut)
       /\ IF r.outcome.kind = "raise"
          THEN /\ ListExecuteEnds(r.outcome)
               /\ UNCHANGED idx
          ELSE /\ idx' = idx + 1
               /\ UNCHANGED <<pc, result>>
    /\ UNCHANGED <<self_ignore, duration, wrap_ignore, enabled_tasks, error>>
    /\ UNCHANGED <<shellVars, restVars>>

\* The same with a handler that leaves the list alone.
Finalize(out) == FinalizeDoing(out, NoMutation)

\* _run_tasks, one iteration with no error recorded: the child is executed
\* inside `try ... except BaseException`.
RunTaskDoing(out, mut) ==
    /\ pc = "loop" /\ idx <= N
    /\ error = NoError
    /\ LET r == TaskExecute(CurTask, CurPos, NoOverrides, out) IN
       /\ HandlerMutates(r, mut)
       /\ IF r.outcome.kind = "raise"
          THEN /\ AfterExecute(Header(idx, N, CurPos, ""), r, out,
                               <<ErrorLine(CurPos, r.outcome.exc)>>)
               /\ error' = r.outcome.exc
          ELSE /\ AfterExecute(Header(idx, N, CurPos, ""), r, out, <<>>)
               /\ UNCHANGED error
    /\ idx' = idx + 1
    /\ UNCHANGED <<self_ignore, duration, pc, wrap_ignore, enabled_tasks,
                   result>>
    /\ UNCHANGED <<shellVars, restVars>>

\* The same with a handler that leaves the list alone.
RunTask(out) == RunTaskDoing(out, NoMutation)

\* A list that reports its duration after the summary line of a failed run.
FinishRunTimingLast ==
    /\ pc = "loop" /\ idx > N
    /\ LET finished == IF duration THEN <<DurationLine>> ELSE <<>>
       IN IF error # NoError
          THEN /\ trace' = trace \o <<SummaryLine(error)>> \o finished
               /\ ListExecuteEnds(Raised(error))
          ELSE /\ trace' = trace \o finished
               /\ ListExecuteEnds(Returned)
    /\ UNCHANGED <<tasks, listed, self_ignore, duration, wrap_ignore,
                   enabled_tasks, idx, error, calls>>
    /\ UNCHANGED <<shellVars, restVars>>

\* _run_tasks after the loop: the duration line `if self.duration`, then
\* the summary line and the re-raise.
FinishRun ==
    /\ pc = "loop" /\ idx > N
    /\ LET finished == IF duration THEN <<DurationLine>> ELSE <<>>
       IN IF error # NoError
          THEN /\ trace' = trace \o finished \o <<SummaryLine(error)>>
               /\ ListExecuteEnds(Raised(error))
          ELSE /\ trace' = trace \o finished
               /\ ListExecuteEnds(Returned)
    /\ UNCHANGED <<tasks, listed, self_ignore, duration, wrap_ignore,
                   enabled_tasks, idx, error, calls>>
    /\ UNCHANGED <<shellVars, restVars>>


\* ============================================================ shell.py

\* --------------------------------------------------------------- objects

\* Environment variable names and values.
Keys == {"A", "B"}

Vals == {"x", "y"}

\* os.environ of the process that imports nutcli.
OsEnviron == [k \in {"A"} |-> "os"]

\* A dict argument that was not given (env=None).
NoDict == [none |-> TRUE]

IsNone(d) == "none" \in DOMAIN d

\* Size of the heap.
MaxRefs == 10

Refs == 1..MaxRefs

FreeCell == [type |-> "free"]

DictCell(items) == [type |-> "dict", items |-> items]

EnvCell(default, overrides) ==
    [type |-> "ShellEnvironment", default |-> default, overrides |-> overrides]

ShellCell(cwd, env, kwargs, default_effect) ==
    [type |-> "Shell", cwd |-> cwd, env |-> env, kwargs |-> kwargs,
     default_effect |-> default_effect]

FreeRefs(h) == {r \in Refs : h[r].type = "free"}

\* The k lowest free references, in order.
Fresh(h, k) ==
    [i \in 1..k |->
        CHOOSE r \in FreeRefs(h) :
            Cardinality({q \in FreeRefs(h) : q < r}) = i - 1]

\* The objects an object refers to.
Children(h, r) ==
    IF h[r].type = "ShellEnvironment" THEN {h[r].default, h[r].overrides}
    ELSE IF h[r].type = "Shell" THEN {h[r].env, h[r].kwargs}
    ELSE {}

\* The objects reachable from `roots` (a Shell reaches its dicts in two
\* steps).
Reachable(h, roots) ==
    LET one == roots \cup UNION {Children(h, r) : r \in roots}
    IN one \cup UNION {Children(h, r) : r \in one}

\* Garbage collection: what no root reaches is freed.
Collect(h, roots) ==
    [r \in Refs |-> IF r \in Reachable(h, roots) THEN h[r] ELSE FreeCell]

\* ------------------------------------------------------ ShellEnvironment

\* ShellEnvironment.__init__(clear_env) into the cells f[1], f[2], f[3].
EnvInit(h, clear_env, f) ==
    [h EXCEPT ![f[1]] = EnvCell(f[2], f[3]),
              ![f[2]] = DictCell(IF clear_env THEN <<>> ELSE OsEnviron),
              ![f[3]] = DictCell(<<>>)]

\* A set that keeps the value a key already has.
EnvSetKeepsFirst(h, r, env) ==
    IF IsNone(env) THEN h
    ELSE [h EXCEPT ![h[r].overrides].items = @ @@ env]

\* ShellEnvironment.set(env): self.overrides.update(env) unless env is None.
EnvSet(h, r, env) ==
    IF IsNone(env) THEN h
    ELSE [h EXCEPT ![h[r].overrides].items = env @@ @]

\* ShellEnvironment.get(): {**self.default, **self.overrides}.
EnvGet(h, r) == h[h[r].overrides].items @@ h[h[r].default].items

\* ShellEnvironment.get_overrides().
EnvGetOverrides(h, r) == h[h[r].overrides].items

\* copy.copy of a ShellEnvironment: a new object that shares both dicts.
EnvShallowCopy(h, r, f) == [h EXCEPT ![f[1]] = h[r]]

\* ShellEnvironment.clone(): copy.deepcopy(self) into the cells f[1..3].
EnvClone(h, r, f) ==
    [h EXCEPT ![f[1]] = EnvCell(f[2], f[3]),
              ![f[2]] = h[h[r].default],
              ![f[3]] = h[h[r].overrides]]

\* ----------------------------------------------------------------- Shell

\* Shell.Effect, and what a caller may pass for `effect`: a member, None,
\* or something else.
Effects == {"Blank", "LogExecution", "SideEffect"}

EffectArgs == Effects \cup {None, "Unknown"}

\* Shell.__init__(cwd, env, clear_env, shell, default_effect, **kwargs)
\* into the cells f[1..5].
ShellInit(h, cwd, env, clear_env, default_effect, kwargs, f) ==
    LET h1 == [h EXCEPT ![f[1]] = ShellCell(cwd, f[2], f[5], default_effect),
                        ![f[5]] = DictCell(kwargs)]
        h2 == EnvInit(h1, clear_env, <<f[2], f[3], f[4]>>)
    IN EnvSet(h2, f[2], env)

\* copy.copy of a Shell: a new object that shares env and kwargs.
ShellShallowCopy(h, s, f) == [h EXCEPT ![f[1]] = h[s]]

\* Shell.clone(): copy.deepcopy(self) into the cells f[1..5].
ShellClone(h, s, f) ==
    LET h1 == [h EXCEPT ![f[1]] = [h[s] EXCEPT !.env = f[2], !.kwargs = f[5]],
                        ![f[5]] = h[h[s].kwargs]]
    IN EnvClone(h1, h[s].env, <<f[2], f[3], f[4]>>)

\* The constructor's keywords laid over the call's.
ApplyDefaultsCtorWins(h, s, kwargs) ==
    LET defaults == [text |-> TRUE, capture_output |-> FALSE, check |-> TRUE,
                     cwd |-> h[s].cwd]
    IN h[h[s].kwargs].items @@ kwargs @@ defaults

\* Shell.__apply_defaults(**kwargs): the built-in defaults, updated with the
\* constructor's keywords, updated with the call's.
ApplyDefaults(h, s, kwargs) ==
    LET defaults == [text |-> TRUE, capture_output |-> FALSE, check |-> TRUE,
                     cwd |-> h[s].cwd]
    IN kwargs @@ h[h[s].kwargs].items @@ defaults

\* Truth value of a dry_run_result (`not result`).
Falsy(v) == v.obj = None \/ (v.obj = "list" /\ v.len = 0)

ShellResult(rc) == [obj |-> "ShellResult", rc |-> rc]

\* A __decorator whose LogExecution branch builds a SideEffect as well.
DecoratorSideEffectTwice(effect, dry_result, message) ==
    IF effect = "Blank" \/ effect = None
    THEN [kind |-> "Identity"]
    ELSE IF effect = "LogExecution" \/ effect = "SideEffect"
    THEN [kind |-> "SideEffect", message |-> message,
          returns |-> IF Falsy(dry_result) THEN ShellResult(0) ELSE dry_result]
    ELSE [kind |-> "ValueError"]

\* Shell.__decorator(effect, result, message).
Decorator(effect, dry_result, message) ==
    IF effect = "Blank" \/ effect = None
    THEN [kind |-> "Identity"]
    ELSE IF effect = "LogExecution"
    THEN [kind |-> "LogExecution", message |-> message]
    ELSE IF effect = "SideEffect"
    THEN [kind |-> "SideEffect", message |-> message,
          returns |-> IF Falsy(dry_result) THEN ShellResult(0) ELSE dry_result]
    ELSE [kind |-> "ValueError"]

\* ------------------------------------------- LogExecution and SideEffect

\* Attribute lookup on a decorator instance: the class's own attribute,
\* else the one of its base class (SideEffect derives from LogExecution).
GetAttr(cls, attr) ==
    IF attr \in DOMAIN class_attrs[cls]
    THEN class_attrs[cls][attr]
    ELSE class_attrs["LogExecution"][attr]

\* LogExecution.enabled(enabled), a classmethod: cls.should_log_execution =
\* enabled, on the class it is called through.
Enabled(cls, b) ==
    [class_attrs EXCEPT ![cls] = [a \in {"should_log_execution"} |-> b] @@ @]

\* SideEffect.dry_run(enabled): cls.is_dry_run = enabled.
DryRun(b) ==
    [class_attrs EXCEPT !["SideEffect"] = [a \in {"is_dry_run"} |-> b] @@ @]

\* The wrapper of LogExecution.__call__ / SideEffect.__call__ logs.
WrapperLogs(dec) ==
    IF dec.kind = "LogExecution"
    THEN GetAttr("LogExecution", "should_log_execution")
    ELSE IF dec.kind = "SideEffect"
    THEN GetAttr("SideEffect", "is_dry_run")
         \/ GetAttr("SideEffect", "should_log_execution")
    ELSE FALSE

\* A SideEffect wrapper that has lost its dry-run branch.
NeverShortCircuits(dec) == FALSE

\* The wrapper of SideEffect.__call__ returns self.returns instead of
\* calling the function.
WrapperShortCircuits(dec) ==
    dec.kind = "SideEffect" /\ GetAttr("SideEffect", "is_dry_run")

\* Log and process events of a Shell call.
LogLine(what, arg) == [kind |-> "log", what |-> what, arg |-> arg]

ProcStarted == [kind |-> "start"]

ProcKilled == [kind |-> "kill"]

\* _ShellCommandPrinter.__call__(message, function, args, kwargs): the
\* message, or the lines of get_pretty(command, env, cwd).
PrinterLines(message, command, overrides, cwd) ==
    IF message = None
    THEN <<LogLine("Working directory", cwd),
           LogLine("Environment", overrides),
           LogLine("Command", command)>>
    ELSE <<LogLine("message", message)>>

\* A command: a string (run through the shell, after textwrap.dedent and
\* strip) or an argument list (run as is).
Commands ==
    {[type |-> "str", text |-> "exit", padded |-> TRUE],
     [type |-> "list", text |-> "exit", padded |-> FALSE]}

\* textwrap.dedent(command).strip()
Dedent(command) ==
    IF command.type = "str" THEN [command EXCEPT !.padded = FALSE]
    ELSE command

\* The Shell under call: the object in the first cell of the heap.
TheShell == CHOOSE r \in Refs : \A q \in Refs : r <= q

NoCall == [state |-> "none"]

NoProc == [state |-> "none"]

\* Shell.__call__ up to the start of the subprocess (or up to its end when
\* no subprocess is started).
ShellCall(command, env, effect, dry_run_result, execution_message, kwargs) ==
    /\ spc = "idle"
    /\ wrapped = NoCall
    /\ LET h0 == heap
           eff == IF effect = None THEN heap[TheShell].default_effect
                  ELSE effect
           f == Fresh(h0, 3)
           h1 == EnvSet(EnvClone(h0, h0[TheShell].env, f), f[1], env)
           real_env == f[1]
           real_args == ApplyDefaults(h1, TheShell, kwargs)
           dec == Decorator(eff, dry_run_result, execution_message)
           cmd == Dedent(command)
           lines == IF dec.kind # "ValueError" /\ WrapperLogs(dec)
                    THEN PrinterLines(dec.message, cmd,
                                      EnvGetOverrides(h1, real_env),
                                      real_args["cwd"])
                    ELSE <<>>
       IN
       /\ heap' = h1
       /\ call' = [state |-> "called", command |-> cmd, env |-> env,
                   effect_arg |-> effect, effect |-> eff,
                   dry_run_result |-> dry_run_result,
                   execution_message |-> execution_message,
                   kwargs |-> kwargs, real_env |-> real_env,
                   real_args |-> real_args]
       /\ IF dec.kind = "ValueError"
          THEN /\ sresult' = Raised([cls |-> "ValueError"])
               /\ spc' = "done"
               /\ slog' = <<>>
               /\ proc' = NoProc
          ELSE IF WrapperShortCircuits(dec)
          THEN /\ sresult' = [kind |-> "return", value |-> dec.returns]
               /\ spc' = "done"
               /\ slog' = lines
               /\ proc' = NoProc
          ELSE /\ sresult' = NoResult
               /\ spc' = "running"
               /\ slog' = lines \o <<ProcStarted>>
               /\ proc' = [state |-> "running",
                           shell |-> (cmd.type = "str"),
                           returncode |-> None,
                           command |-> cmd,
                           env |-> EnvGet(h1, real_env),
                           cwd |-> real_args["cwd"]]
    /\ UNCHANGED <<class_attrs, wrapped, objs, target>>
    /\ UNCHANGED <<taskVars, restVars>>

\* An error that reports a failure without the status of the process.
CommandErrorStatusOne(returncode) ==
    [cls |-> "ShellCommandError", rc |-> 1, cmd |-> call.command,
     cwd |-> call.real_args["cwd"], env |-> call.real_env]

\* `except subprocess.CalledProcessError as e` in Shell.__call__.
CommandError(returncode) ==
    [cls |-> "ShellCommandError", rc |-> returncode, cmd |-> call.command,
     cwd |-> call.real_args["cwd"], env |-> call.real_env]

\* subprocess.run returns or raises CalledProcessError: the process exited
\* with `rc`; with check, a non-zero status is an error.
ProcessExits(rc) ==
    /\ spc = "running"
    /\ proc' = [proc EXCEPT !.state = "exited", !.returncode = rc]
    /\ sresult' = IF call.real_args["check"] /\ rc # 0
                  THEN Raised(CommandError(rc))
                  ELSE [kind |-> "return", value |-> ShellResult(rc)]
    /\ spc' = "done"
    /\ UNCHANGED <<class_attrs, heap, call, slog,
                   wrapped, objs, target>>
    /\ UNCHANGED <<taskVars, restVars>>

\* subprocess.run with a timeout that expires: the child is killed and
\* waited for, then TimeoutExpired is raised.
ProcessTimesOut ==
    /\ spc = "running"
    /\ "timeout" \in DOMAIN call.real_args
    /\ proc' = [proc EXCEPT !.state = "killed"]
    /\ slog' = slog \o <<ProcKilled>>
    /\ spc' = "expired"
    /\ UNCHANGED <<class_attrs, heap, call, sresult,
                   wrapped, objs, target>>
    /\ UNCHANGED <<taskVars, restVars>>

\* Python's round() of a timeout given in half seconds: to the nearest
\* whole second, a half to the even one.
Round(t) ==
    IF t % 2 = 0 THEN t
    ELSE IF ((t - 1) \div 2) % 2 = 0 THEN t - 1 ELSE t + 1

\* dict.get(key, default)
DictGet(d, key, default) == IF key \in DOMAIN d THEN d[key] ELSE default

\* An error that always reports the rounded e.timeout.
TimeoutErrorRounded(e_timeout) ==
    [cls |-> "ShellTimeoutError", timeout |-> Round(e_timeout),
     cmd |-> call.command, cwd |-> call.real_args["cwd"],
     env |-> call.real_env]

\* `except subprocess.TimeoutExpired as e` in Shell.__call__; e.timeout is
\* the timeout subprocess.run was given.
TimeoutErrorOf(e_timeout) ==
    [cls |-> "ShellTimeoutError",
     timeout |-> DictGet(call.real_args, "timeout", Round(e_timeout)),
     cmd |-> call.command, cwd |-> call.real_args["cwd"],
     env |-> call.real_env]

RaiseTimeout ==
    /\ spc = "expired"
    /\ sresult' = Raised(TimeoutErrorOf(call.real_args["timeout"]))
    /\ spc' = "done"
    /\ UNCHANGED <<class_attrs, heap, call, proc, slog,
                   wrapped, objs, target>>
    /\ UNCHANGED <<taskVars, restVars>>

\* LogExecution.enabled(b), SideEffect.enabled(b), SideEffect.dry_run(b),
\* called between two Shell calls.
SetEnabled(cls, b) ==
    /\ spc = "idle"
    /\ wrapped = NoCall
    /\ class_attrs' = Enabled(cls, b)
    /\ UNCHANGED <<heap, spc, call, proc, slog, sresult,
                   wrapped, objs, target>>
    /\ UNCHANGED <<taskVars, restVars>>

SetDryRun(b) ==
    /\ spc = "idle"
    /\ wrapped = NoCall
    /\ class_attrs' = DryRun(b)
    /\ UNCHANGED <<heap, spc, call, proc, slog, sresult,
                   wrapped, objs, target>>
    /\ UNCHANGED <<taskVars, restVars>>

\* Control is back in the caller: the frame of the call is gone.
Returns ==
    /\ spc = "done"
    /\ spc' = "idle"
    /\ call' = NoCall
    /\ proc' = NoProc
    /\ slog' = <<>>
    /\ sresult' = NoResult
    /\ heap' = Collect(heap, {TheShell})
    /\ UNCHANGED <<class_attrs, wrapped, objs, target>>
    /\ UNCHANGED <<taskVars, restVars>>

\* A callable decorated with LogExecution(...) or SideEffect(returns=...)
\* is called; its body would return `body`.  The wrapper logs, and calls the
\* body or returns `returns` in its place.
WrapperCall(dec, body) ==
    [logged |-> WrapperLogs(dec),
     executed |-> ~WrapperShortCircuits(dec),
     value |-> IF WrapperShortCircuits(dec) THEN dec.returns ELSE body]

CallDecorated(kind, returns, body) ==
    /\ spc = "idle"
    /\ wrapped = NoCall
    /\ LET dec == [kind |-> kind, message |-> None, returns |-> returns]
           r == WrapperCall(dec, body)
       IN wrapped' = [state |-> "called", kind |-> kind, returns |-> returns,
                      body |-> body, logged |-> r.logged,
                      executed |-> r.executed, value |-> r.value]
    /\ UNCHANGED <<class_attrs, heap, spc, call, proc, slog, sresult, objs,
                   target>>
    /\ UNCHANGED <<taskVars, restVars>>

\* The decorated callable is back in its caller.
WrappedReturns ==
    /\ wrapped # NoCall
    /\ wrapped' = NoCall
    /\ UNCHANGED <<class_attrs, heap, spc, call, proc, slog, sresult, objs,
                   target>>
    /\ UNCHANGED <<taskVars, restVars>>

\* ------------------------------------------ clients of clone() and set()

\* Most objects the program holds a name for.
MaxObjs == 3

IsShell(h, r) == h[r].type = "Shell"

\* The ShellEnvironment of an object: a Shell's env, or the object itself.
EnvOf(h, r) == IF IsShell(h, r) THEN h[r].env ELSE r

\* What a client can observe of an object: its effective environment get()
\* and, of a Shell, its cwd, default options and default effect.
Observe(h, r) ==
    IF IsShell(h, r)
    THEN [env |-> EnvGet(h, h[r].env), cwd |-> h[r].cwd,
          kwargs |-> h[h[r].kwargs].items,
          default_effect |-> h[r].default_effect]
    ELSE [env |-> EnvGet(h, r)]

\* y = x.clone() for the object x = objs[i].
Clone(i) ==
    /\ Len(objs) < MaxObjs
    /\ LET x == objs[i]
           k == IF IsShell(heap, x) THEN 5 ELSE 3
       IN /\ Cardinality(FreeRefs(heap)) >= k
          /\ LET f == Fresh(heap, k)
             IN /\ heap' = IF IsShell(heap, x) THEN ShellClone(heap, x, f)
                            ELSE EnvClone(heap, x, f)
                /\ objs' = Append(objs, f[1])
    /\ target' = 0
    /\ UNCHANGED <<class_attrs, spc, call, proc, slog, sresult, wrapped>>
    /\ UNCHANGED <<taskVars, restVars>>

\* x.set(env) on a ShellEnvironment x, x.env.set(env) on a Shell x.
SetEnv(i, env) ==
    /\ heap' = EnvSet(heap, EnvOf(heap, objs[i]), env)
    /\ target' = i
    /\ UNCHANGED <<class_attrs, spc, call, proc, slog, sresult, wrapped, objs>>
    /\ UNCHANGED <<taskVars, restVars>>

\* x.cwd = cwd on a Shell x.
SetCwd(i, cwd) ==
    /\ IsShell(heap, objs[i])
    /\ heap' = [heap EXCEPT ![objs[i]].cwd = cwd]
    /\ target' = i
    /\ UNCHANGED <<class_attrs, spc, call, proc, slog, sresult, wrapped, objs>>
    /\ UNCHANGED <<taskVars, restVars>>

\* x.kwargs[key] = value on a Shell x (a default option).
SetOption(i, key, value) ==
    /\ IsShell(heap, objs[i])
    /\ heap' = [heap EXCEPT ![heap[objs[i]].kwargs].items =
                                [k \in {key} |-> value] @@ @]
    /\ target' = i
    /\ UNCHANGED <<class_attrs, spc, call, proc, slog, sresult, wrapped, objs>>
    /\ UNCHANGED <<taskVars, restVars>>

\* Largest exit status of a subprocess.
MaxRc == 1

\* Longest timeout, in half seconds.
MaxTimeout == 3

\* Exit statuses (negative: killed by a signal).
RetCodes == (-1)..MaxRc

Timeouts == 2..MaxTimeout

DryRunResults ==
    {[obj |-> None], [obj |-> "list", len |-> 0], ShellResult(1)}

Messages == {None, "TEST"}

\* The class attributes as the class statements leave them.
ClassAttrsInit ==
    [LogExecution |-> [should_log_execution |-> FALSE],
     SideEffect |-> [is_dry_run |-> FALSE]]

EmptyHeap == [r \in Refs |-> FreeCell]

TaskIdle ==
    /\ tasks = <<>>
    /\ listed = <<>>
    /\ self_ignore = FALSE
    /\ duration = FALSE
    /\ pc = "idle"
    /\ wrap_ignore = FALSE
    /\ enabled_tasks = <<>>
    /\ idx = 1
    /\ error = NoError
    /\ trace = <<>>
    /\ calls = <<>>
    /\ result = NoResult

CallIdle ==
    /\ spc = "idle"
    /\ call = NoCall
    /\ proc = NoProc
    /\ slog = <<>>
    /\ sresult = NoResult
    /\ wrapped = NoCall
    /\ target = 0

\* No Task, no timer, no nesting, no function applied.
TimedIdle ==
    /\ ttask = NoCall
    /\ tcall = NoCall
    /\ alarm = [armed |-> FALSE, remaining |-> 0]
    /\ tresult = NoResult

NestIdle ==
    /\ nodes = <<>>
    /\ stack = <<>>
    /\ lastline = NoCall

PipeIdle ==
    /\ owner = NoCall
    /\ pipes = <<>>

AlarmIdle ==
    /\ sigalrm = NoCall
    /\ ocall = NoCall
    /\ icall = NoCall
    /\ clock = 0

PureIdle ==
    /\ pin = NoCall
    /\ pout = NoCall

RestIdle ==
    /\ TimedIdle
    /\ NestIdle
    /\ PipeIdle
    /\ AlarmIdle
    /\ PureIdle

ShellIdle ==
    /\ class_attrs = ClassAttrsInit
    /\ heap = EmptyHeap
    /\ objs = <<>>
    /\ CallIdle

\* ------------------- SpecShell: effects, toggles and the dry-run result

InitShell ==
    /\ TaskIdle
    /\ RestIdle
    /\ class_attrs = ClassAttrsInit
    /\ \E default_effect \in Effects \cup {None} :
           heap = ShellInit(EmptyHeap, "/home", NoDict, FALSE,
                            default_effect, <<>>, <<1, 2, 3, 4, 5>>)
    /\ objs = <<TheShell>>
    /\ CallIdle

Returnables == {None, "dry"}

Bodies == {None, "result"}

NextShell ==
    \/ \E kind \in {"LogExecution", "SideEffect"}, returns \in Returnables,
          body \in Bodies :
           CallDecorated(kind, returns, body)
    \/ WrappedReturns
    \/ \E effect \in EffectArgs, dry_run_result \in DryRunResults,
          message \in Messages, env \in {NoDict, [k \in {"B"} |-> "y"]},
          kwargs \in {<<>>, [timeout |-> 2]} :
           ShellCall([type |-> "str", text |-> "exit", padded |-> FALSE],
                     env, effect, dry_run_result, message, kwargs)
    \/ \E rc \in RetCodes : ProcessExits(rc)
    \/ ProcessTimesOut
    \/ RaiseTimeout
    \/ Returns
    \/ \E cls \in {"LogExecution", "SideEffect"}, b \in BOOLEAN :
           SetEnabled(cls, b)
    \/ \E b \in BOOLEAN : SetDryRun(b)

SpecShell == InitShell /\ [][NextShell]_vars

\* ------------ SpecProc: options, environment and outcome of the process

EnvArgs == {NoDict, [k \in {"A"} |-> "x"], [k \in {"B"} |-> "y"]}

CtorKwargs == {<<>>, [check |-> FALSE], [timeout |-> 2]}

CallKwargs ==
    {<<>>, [check |-> TRUE], [check |-> FALSE], [cwd |-> "/tmp"]}
    \cup {[timeout |-> t] : t \in Timeouts}

InitProc ==
    /\ TaskIdle
    /\ RestIdle
    /\ class_attrs = ClassAttrsInit
    /\ \E env \in {NoDict, [k \in {"A"} |-> "y"]}, clear_env \in BOOLEAN,
          kwargs \in CtorKwargs :
           heap = ShellInit(EmptyHeap, "/home", env, clear_env,
                            "SideEffect", kwargs, <<1, 2, 3, 4, 5>>)
    /\ objs = <<TheShell>>
    /\ CallIdle

NextProc ==
    \/ \E command \in Commands, env \in EnvArgs,
          effect \in {None, "Blank", "Unknown"}, kwargs \in CallKwargs :
           ShellCall(command, env, effect, [obj |-> None], None, kwargs)
    \/ \E rc \in RetCodes : ProcessExits(rc)
    \/ ProcessTimesOut
    \/ RaiseTimeout
    \/ Returns
    \/ \E b \in BOOLEAN : SetDryRun(b)

SpecProc == InitProc /\ [][NextProc]_vars

\* ------------------------------ SpecEnv: clones and their mutations

InitEnv ==
    /\ TaskIdle
    /\ RestIdle
    /\ class_attrs = ClassAttrsInit
    /\ \E env \in {NoDict, [k \in {"A"} |-> "y"]}, clear_env \in BOOLEAN :
           \/ heap = ShellInit(EmptyHeap, "/home", env, clear_env,
                               "SideEffect", <<>>, <<1, 2, 3, 4, 5>>)
           \/ heap = EnvSet(EnvInit(EmptyHeap, clear_env, <<1, 2, 3>>), 1, env)
    /\ objs = <<1>>
    /\ CallIdle

NextEnv ==
    \/ \E i \in DOMAIN objs : Clone(i)
    \/ \E i \in DOMAIN objs, k \in Keys, v \in Vals :
           SetEnv(i, [x \in {k} |-> v])
    \/ \E i \in DOMAIN objs, cwd \in {"/home", "/tmp"} : SetCwd(i, cwd)
    \/ \E i \in DOMAIN objs, value \in BOOLEAN : SetOption(i, "check", value)

SpecEnv == InitEnv /\ [][NextEnv]_vars

\* ------------------------- SpecSet: ShellEnvironment.set, call by call

\* What a caller may pass to set: None, or a dict over the keys.
SetArgs ==
    {NoDict} \cup UNION {[d -> Vals] : d \in SUBSET Keys}

\* y = x.set(env) on the ShellEnvironment x = objs[i]: the call and the
\* object it returned (`return self`).
EnvSetCall(i, env) ==
    /\ heap' = EnvSet(heap, objs[i], env)
    /\ pin' = [fn |-> "set", self |-> objs[i], env |-> env]
    /\ pout' = [ref |-> objs[i]]
    /\ UNCHANGED <<class_attrs, spc, call, proc, slog, sresult, wrapped, objs,
                   target>>
    /\ UNCHANGED <<taskVars, timedVars, nestVars, pipeVars, alarmVars>>

\* Two environments, one a copy of os.environ and one cleared or not.
InitSet ==
    /\ TaskIdle
    /\ RestIdle
    /\ class_attrs = ClassAttrsInit
    /\ \E clear_env \in BOOLEAN :
           heap = EnvInit(EnvInit(EmptyHeap, FALSE, <<1, 2, 3>>),
                          clear_env, <<4, 5, 6>>)
    /\ objs = <<1, 4>>
    /\ CallIdle

NextSet ==
    \E i \in DOMAIN objs, env \in SetArgs : EnvSetCall(i, env)

SpecSet == InitSet /\ [][NextSet]_vars

\* ---------------- SpecTask: one Task.execute, or one call under Timeout

\* Longest timeout, in seconds.
MaxSeconds == 2

Seconds == {NoneValue} \cup {IntValue(v) : v \in 0..MaxSeconds}

\* Task.__init__: the fields execute reads.
TaskSettings ==
    [enabled : BOOLEAN, ignore_errors : BOOLEAN, timeout : Seconds,
     handler : {"fn", None}]

TimeoutOverride(t) == [k \in {"timeout"} |-> t]

\* The keyword overrides of execute(**kwargs).
TaskOverrides ==
    Overrides
    \cup {TimeoutOverride(t) : t \in Seconds}
    \cup {Override(b) @@ TimeoutOverride(t) : b \in BOOLEAN, t \in Seconds}

\* Task.__real_handler: kwargs = {**self.__dict__, **overrides}, then
\* kwargs['timeout'].
EffectiveTimeout(task, overrides) ==
    IF "timeout" \in DOMAIN overrides
    THEN overrides["timeout"]
    ELSE task.timeout

\* The enabled flag is not looked at.
NeverDisabled(task) == FALSE

\* Task.execute: `if not self.enabled: return`.
Disabled(task) == ~task.enabled

\* The handler is taken as bound.
AlwaysBound(task) == FALSE

\* Task.__real_args: `if not self.handler: raise ValueError(...)`.
NoHandler(task) == task.handler = None

Disarmed == [armed |-> FALSE, remaining |-> 0]

\* SIGALRM is due: its handler runs before the interpreter's next step.
Due == alarm.armed /\ alarm.remaining = 0

\* A call in progress. given is the message Timeout was constructed with,
\* own is what the callable itself did, pending what
\* Timeout's wrapper is about to pass on. state: "wrapper" (in Timeout's wrapper, timer armed,
\* the wrapped callable not yet entered), "body" (in the wrapped callable:
\* IgnoreErrors' try when ignoring, and the handler), "returning" (back in
\* Timeout's wrapper, timer still armed), "done".
Calling(via, overrides, ignore, given, deco, timed, state) ==
    [via |-> via, overrides |-> overrides, ignore |-> ignore,
     given |-> given,
     seconds |-> IF timed THEN deco.seconds.value.v ELSE 0,
     message |-> deco.message, timed |-> timed, state |-> state,
     invoked |-> state = "body", logged |-> FALSE, own |-> NoResult,
     pending |-> NoResult,
     fired |-> "no", elapsed |-> 0]

\* The call ended before it wrapped anything.
Ended(via, overrides) ==
    [Calling(via, overrides, FALSE, None, TimeoutInit(NoneValue, None),
             FALSE, "done") EXCEPT !.invoked = FALSE]

\* Calling the callable Timeout(timeout, message)(function) gave back, the
\* function wrapped in IgnoreErrors when `ignore`.
CallWrapped(via, overrides, ignore, timeout, message) ==
    LET deco == TimeoutInit(timeout, message)
    IN IF ~deco.seconds.ok
       THEN /\ tcall' = Ended(via, overrides)
            /\ tresult' = Raised(Exc(deco.seconds.exc, 0))
            /\ UNCHANGED alarm
       ELSE IF ~Truthy(deco.seconds.value)
       THEN /\ tcall' = Calling(via, overrides, ignore, message, deco,
                                FALSE, "body")
            /\ UNCHANGED <<alarm, tresult>>
       ELSE /\ tcall' = Calling(via, overrides, ignore, message, deco,
                                TRUE, "wrapper")
            /\ alarm' = [armed |-> TRUE,
                         remaining |-> deco.seconds.value.v]
            /\ UNCHANGED tresult

\* Task.execute(**overrides), up to the call of the wrapped handler.
ExecuteTask(overrides) ==
    /\ tcall = NoCall
    /\ IF Disabled(ttask)
       THEN /\ tcall' = Ended("execute", overrides)
            /\ tresult' = Returned
            /\ UNCHANGED alarm
       ELSE IF NoHandler(ttask)
       THEN /\ tcall' = Ended("execute", overrides)
            /\ tresult' = Raised(Exc("ValueError", 0))
            /\ UNCHANGED alarm
       ELSE IF EffectiveTimeout(ttask, overrides) = NoneValue
       THEN /\ tcall' = Calling("execute", overrides,
                                EffectiveIgnore(ttask, overrides), None,
                                TimeoutInit(NoneValue, None), FALSE, "body")
            /\ UNCHANGED <<alarm, tresult>>
       ELSE CallWrapped("execute", overrides,
                        EffectiveIgnore(ttask, overrides),
                        EffectiveTimeout(ttask, overrides), None)
    /\ UNCHANGED ttask
    /\ UNCHANGED <<taskVars, shellVars, nestVars, pureVars, pipeVars, alarmVars>>

\* Timeout(timeout, message)(function)(): the decorator used on its own.
CallTimeout(timeout, message) ==
    /\ tcall = NoCall
    /\ CallWrapped("Timeout", NoOverrides, FALSE, timeout, message)
    /\ UNCHANGED ttask
    /\ UNCHANGED <<taskVars, shellVars, nestVars, pureVars, pipeVars, alarmVars>>

\* Timeout's wrapper: `return function(*args, **kwargs)` enters the callable.
EnterBody ==
    /\ tcall # NoCall
    /\ tcall.state = "wrapper"
    /\ ~Due
    /\ tcall' = [tcall EXCEPT !.state = "body", !.invoked = TRUE]
    /\ UNCHANGED <<ttask, alarm, tresult>>
    /\ UNCHANGED <<taskVars, shellVars, nestVars, pureVars, pipeVars, alarmVars>>

\* The callable is left with `outcome`: back in Timeout's wrapper when the
\* call is timed, in the caller when not.
LeaveBody(outcome, logged, fired) ==
    LET after == IF tcall.ignore THEN IgnoreErrors(outcome) ELSE outcome
    IN IF tcall.timed
       THEN /\ tcall' = [tcall EXCEPT !.state = "returning",
                                       !.own = outcome, !.pending = after,
                                       !.logged = logged, !.fired = fired]
            /\ UNCHANGED tresult
       ELSE /\ tcall' = [tcall EXCEPT !.state = "done", !.own = outcome,
                                       !.logged = logged]
            /\ tresult' = after

\* The handler returns or raises; it may have logged through its task.
BodyEnds(out, logged) ==
    /\ tcall # NoCall
    /\ tcall.state = "body"
    /\ ~Due
    /\ LeaveBody(IF out = "ok" THEN Returned ELSE Raised(Exc(out, 0)),
                 logged, tcall.fired)
    /\ UNCHANGED <<ttask, alarm>>
    /\ UNCHANGED <<taskVars, shellVars, nestVars, pureVars, pipeVars, alarmVars>>

\* A second of ITIMER_REAL passes.
Tick ==
    /\ alarm.armed
    /\ alarm.remaining > 0
    /\ alarm' = [alarm EXCEPT !.remaining = @ - 1]
    /\ tcall' = [tcall EXCEPT !.elapsed = @ + 1]
    /\ UNCHANGED <<ttask, tresult>>
    /\ UNCHANGED <<taskVars, shellVars, nestVars, pureVars, pipeVars, alarmVars>>

\* SIGALRM is delivered: Timeout.__signal_handler raises TimeoutError at the
\* point the interpreter has reached.
SignalFires ==
    /\ Due
    /\ alarm' = Disarmed
    /\ LET e == Raised(TimeoutError(tcall.seconds, tcall.message))
       IN IF tcall.state = "body"
          THEN LeaveBody(e, tcall.logged, "body")
          ELSE /\ tcall' = [tcall EXCEPT !.pending = e, !.fired = tcall.state,
                                          !.state = "returning"]
               /\ UNCHANGED tresult
    /\ UNCHANGED ttask
    /\ UNCHANGED <<taskVars, shellVars, nestVars, pureVars, pipeVars, alarmVars>>

\* Timeout's wrapper, `finally:` the old timer and handler are restored,
\* then the pending return or exception goes on to the caller.
WrapperReturns ==
    /\ tcall # NoCall
    /\ tcall.state = "returning"
    /\ ~Due
    /\ alarm' = Disarmed
    /\ tcall' = [tcall EXCEPT !.state = "done"]
    /\ tresult' = tcall.pending
    /\ UNCHANGED ttask
    /\ UNCHANGED <<taskVars, shellVars, nestVars, pureVars, pipeVars, alarmVars>>

InitTask ==
    /\ TaskIdle
    /\ ShellIdle
    /\ NestIdle
    /\ PipeIdle
    /\ AlarmIdle
    /\ PureIdle
    /\ ttask \in TaskSettings
    /\ tcall = NoCall
    /\ alarm = Disarmed
    /\ tresult = NoResult

NextTask ==
    \/ \E overrides \in TaskOverrides : ExecuteTask(overrides)
    \/ \E timeout \in Seconds, message \in {None, "too slow"} :
           CallTimeout(timeout, message)
    \/ EnterBody
    \/ \E out \in HandlerOutcomes, logged \in BOOLEAN : BodyEnds(out, logged)
    \/ Tick
    \/ SignalFires
    \/ WrapperReturns

SpecTask == InitTask /\ [][NextTask]_vars

\* ------------------------- SpecNest: nested execution and log prefixes

\* Most tasks and task lists constructed.
MaxNodes == 3

\* Deepest nesting of execute calls.
MaxDepth == 3

\* A Task, or a TaskList with its tag (None: no tag); _parent is the index
\* of the parent, 0 for None.
Node(kind, tag) == [kind |-> kind, tag |-> tag, parent |-> 0]

NodeConfigs ==
    {Node("Task", None)} \cup {Node("TaskList", t) : t \in {None, "A", "B"}}

\* A string, by its pieces.
TwoSpaces == <<"  ">>

\* f'[{self.tag}] '
TagText(tag) == <<"[", tag, "] ">>

\* The prefix of a task list that leaves out the two spaces.
TaskListLogPrefixFlat(ns, i, parent_prefix) ==
    LET tag == IF ns[i].tag # None THEN TagText(ns[i].tag) ELSE <<>>
    IN IF ns[i].parent = 0 THEN tag ELSE parent_prefix \o tag

\* Task._log_prefix, given the parent's.
TaskLogPrefix(ns, i, parent_prefix) ==
    IF ns[i].parent = 0 THEN <<>> ELSE parent_prefix \o TwoSpaces

\* TaskList._log_prefix, given the parent's.
TaskListLogPrefix(ns, i, parent_prefix) ==
    LET tag == IF ns[i].tag # None THEN TagText(ns[i].tag) ELSE <<>>
    IN IF ns[i].parent = 0 THEN tag ELSE parent_prefix \o TwoSpaces \o tag

RECURSIVE LogPrefix(_, _)
\* The property _log_prefix of node i: self._parent._log_prefix is read
\* only when there is a parent.
LogPrefix(ns, i) ==
    LET parent_prefix ==
            IF ns[i].parent = 0 THEN <<>> ELSE LogPrefix(ns, ns[i].parent)
    IN IF ns[i].kind = "TaskList"
       THEN TaskListLogPrefix(ns, i, parent_prefix)
       ELSE TaskLogPrefix(ns, i, parent_prefix)

OnStack(i) == \E k \in 1..Len(stack) : stack[k] = i

\* task.execute(parent=None): a call from outside any task.
ExecuteTop(i) ==
    /\ stack = <<>>
    /\ nodes' = [nodes EXCEPT ![i].parent = 0]
    /\ stack' = <<i>>
    /\ lastline' = NoCall
    /\ UNCHANGED <<taskVars, shellVars, timedVars, pureVars, pipeVars, alarmVars>>

\* A list that starts a child while an earlier child of its own is still
\* running.
ExecuteChildOfOutermost(i) ==
    /\ stack # <<>>
    /\ Len(stack) < MaxDepth
    /\ ~OnStack(i)
    /\ nodes' = [nodes EXCEPT ![i].parent = stack[1]]
    /\ stack' = Append(stack, i)
    /\ lastline' = NoCall
    /\ UNCHANGED <<taskVars, shellVars, timedVars, pureVars, pipeVars, alarmVars>>

\* task.execute(parent=self), called by the handler that is running:
\* _run_tasks of a list, or a handler that nests a task under its own.
ExecuteChild(i) ==
    /\ stack # <<>>
    /\ Len(stack) < MaxDepth
    /\ ~OnStack(i)
    /\ nodes' = [nodes EXCEPT ![i].parent = stack[Len(stack)]]
    /\ stack' = Append(stack, i)
    /\ lastline' = NoCall
    /\ UNCHANGED <<taskVars, shellVars, timedVars, pureVars, pipeVars, alarmVars>>

\* Task._log_message: node i logs a line, self._log_prefix before it.
Log(i) ==
    /\ lastline' = [node |-> i, prefix |-> LogPrefix(nodes, i)]
    /\ UNCHANGED <<nodes, stack>>
    /\ UNCHANGED <<taskVars, shellVars, timedVars, pureVars, pipeVars, alarmVars>>

\* The innermost execute returns.
ExecuteReturns ==
    /\ stack # <<>>
    /\ stack' = SubSeq(stack, 1, Len(stack) - 1)
    /\ lastline' = NoCall
    /\ UNCHANGED nodes
    /\ UNCHANGED <<taskVars, shellVars, timedVars, pureVars, pipeVars, alarmVars>>

InitNest ==
    /\ TaskIdle
    /\ ShellIdle
    /\ TimedIdle
    /\ PureIdle
    /\ PipeIdle
    /\ AlarmIdle
    /\ nodes \in UNION {[1..n -> NodeConfigs] : n \in 1..MaxNodes}
    /\ stack = <<>>
    /\ lastline = NoCall

NextNest ==
    \/ \E i \in 1..Len(nodes) : ExecuteTop(i)
    \/ \E i \in 1..Len(nodes) : ExecuteChild(i)
    \/ \E i \in 1..Len(nodes) : Log(i)
    \/ ExecuteReturns

SpecNest == InitNest /\ [][NextNest]_vars

\* ------------------------------------------ SpecRun: Runner.execute

\* Runner.__init__: timeout_exit_code=255.
DefaultTimeoutExitCode == 255

\* The classes an actor's exception may have, each with its bases.
Bases(cls) ==
    IF cls \in {"ShellCommandError", "ShellTimeoutError"}
    THEN {cls, "ShellError", "Exception", "BaseException"}
    ELSE IF cls \in {"ShellError", "TimeoutError", "ValueError"}
    THEN {cls, "Exception", "BaseException"}
    ELSE IF cls = "Exception" THEN {cls, "BaseException"}
    ELSE {cls, "BaseException"}

\* isinstance(e, base)
IsInstance(e, base) == base \in Bases(e.cls)

\* What the actor does when called: it returns a value or raises.
ActorOutcomes ==
    {[kind |-> "return", value |-> v] :
        v \in {NoneValue} \cup {IntValue(n) : n \in {0, 1, 5}}}
    \cup {Raised([cls |-> "ShellCommandError", rc |-> rc]) : rc \in RetCodes}
    \cup {Raised([cls |-> c]) :
             c \in {"ShellTimeoutError", "ShellError", "TimeoutError",
                    "ValueError", "Exception", "KeyboardInterrupt",
                    "SystemExit"}}

\* args.func: absent, an Actor, an ArgumentParser, or something else.
Funcs == {None, "Actor", "ArgumentParser", "other"}

RunnerInputs ==
    [func : Funcs, outcome : ActorOutcomes,
     timeout_exit_code : {0, 2, DefaultTimeoutExitCode}]

\* Every exception ends in the generic code.
ExitCodeAlwaysOne(e, timeout_exit_code) == 1

\* The except clauses of Runner.execute for an exception they catch.
ExitCode(e, timeout_exit_code) ==
    IF IsInstance(e, "ShellError")
    THEN IF IsInstance(e, "ShellCommandError") THEN e.rc
         ELSE IF IsInstance(e, "ShellTimeoutError") THEN timeout_exit_code
         ELSE 1
    ELSE IF IsInstance(e, "KeyboardInterrupt") THEN 1
    ELSE IF IsInstance(e, "TimeoutError") THEN timeout_exit_code
    ELSE 1

\* Runner._call_actor(args.func, args, shell)
CallActor(func, outcome) ==
    IF func = "other" THEN Raised([cls |-> "ValueError"])
    ELSE IF func = "ArgumentParser"
    THEN [kind |-> "return", value |-> IntValue(1)]
    ELSE outcome

\* Runner.execute(args): the value returned, or the exception that leaves.
RunnerExecute(in) ==
    IF in.func = None THEN Ok(IntValue(0))
    ELSE LET r == CallActor(in.func, in.outcome)
         IN IF r.kind = "return" THEN Ok(r.value)
            ELSE IF \/ IsInstance(r.exc, "ShellError")
                    \/ IsInstance(r.exc, "KeyboardInterrupt")
                    \/ IsInstance(r.exc, "Exception")
            THEN Ok(IntValue(ExitCode(r.exc, in.timeout_exit_code)))
            ELSE Fails(r.exc.cls)

\* rc = runner.execute(args)
Run ==
    /\ pout = NoCall
    /\ pin.fn = "execute"
    /\ pout' = RunnerExecute(pin.args)
    /\ UNCHANGED pin
    /\ UNCHANGED <<taskVars, shellVars, timedVars, nestVars, pipeVars, alarmVars>>

InitRun ==
    /\ TaskIdle
    /\ ShellIdle
    /\ TimedIdle
    /\ NestIdle
    /\ PipeIdle
    /\ AlarmIdle
    /\ pin \in {[fn |-> "execute", args |-> a] : a \in RunnerInputs}
    /\ pout = NoCall

NextRun == Run

SpecRun == InitRun /\ [][NextRun]_vars

\* ------------------- SpecPure: __to_seconds and __real_args applied

TimeoutInputs ==
    {NoneValue, [type |-> "float"]}
    \cup {IntValue(v) : v \in 0..2}
    \cup {StrValue(parts) :
             parts \in UNION {[1..n -> Components] : n \in 0..MaxParts}}

BindingInputs ==
    {[sig |-> sig, args |-> args, kwargs |-> kwargs] :
        sig \in {g \in Signatures :
                    ~(Contains(g.args, "task") /\ "task" \in g.kwonly)},
        args \in BoundArgs, kwargs \in BoundKwargs}

\* Timeout(timeout): self.seconds = self.__to_seconds(timeout)
ParseTimeout ==
    /\ pout = NoCall
    /\ pin.fn = "__to_seconds"
    /\ pout' = ToSeconds(pin.timeout)
    /\ UNCHANGED pin
    /\ UNCHANGED <<taskVars, shellVars, timedVars, nestVars, pipeVars, alarmVars>>

\* Task.execute: (real_args, real_kwargs) = self.__real_args()
BindArgs ==
    /\ pout = NoCall
    /\ pin.fn = "__real_args"
    /\ pout' = RealArgs(pin.binding.sig, pin.binding.args, pin.binding.kwargs)
    /\ UNCHANGED pin
    /\ UNCHANGED <<taskVars, shellVars, timedVars, nestVars, pipeVars, alarmVars>>

InitPure ==
    /\ TaskIdle
    /\ ShellIdle
    /\ TimedIdle
    /\ NestIdle
    /\ PipeIdle
    /\ AlarmIdle
    /\ pin \in {[fn |-> "__to_seconds", timeout |-> t] : t \in TimeoutInputs}
              \cup {[fn |-> "__real_args", binding |-> b] :
                       b \in BindingInputs}
    /\ pout = NoCall

NextPure ==
    \/ ParseTimeout
    \/ BindArgs

SpecPure == InitPure /\ [][NextPure]_vars

\* ------------------------------------------------ Spec: one TaskList

Init ==
    /\ tasks \in UNION {[1..n -> TaskConfigs] : n \in 0..MaxTasks}
    /\ listed = [p \in 1..Len(tasks) |-> p]
    /\ self_ignore \in BOOLEAN
    /\ duration = FALSE
    /\ pc = "idle"
    /\ wrap_ignore = FALSE
    /\ enabled_tasks = <<>>
    /\ idx = 1
    /\ error = NoError
    /\ trace = <<>>
    /\ calls = [p \in 1..Len(tasks) |-> 0]
    /\ result = NoResult
    /\ ShellIdle
    /\ RestIdle

Next ==
    \/ \E overrides \in Overrides : Execute(overrides)
    \/ SkipOnError
    \/ \E out \in HandlerOutcomes : Finalize(out)
    \/ \E out \in HandlerOutcomes : RunTask(out)
    \/ FinishRun

Spec == Init /\ [][Next]_vars

\* --------------- SpecAgain: one TaskList executed again and again

\* Enabled children with a handler, in a list that does not ignore errors.
InitAgain ==
    /\ tasks \in UNION {[1..n -> {c \in TaskConfigs : c.handler = "fn"
                                                      /\ c.enabled}]
                          : n \in 0..MaxTasks}
    /\ listed = [p \in 1..Len(tasks) |-> p]
    /\ self_ignore = FALSE
    /\ duration \in BOOLEAN
    /\ pc = "idle"
    /\ wrap_ignore = FALSE
    /\ enabled_tasks = <<>>
    /\ idx = 1
    /\ error = NoError
    /\ trace = <<>>
    /\ calls = [p \in 1..Len(tasks) |-> 0]
    /\ result = NoResult
    /\ ShellIdle
    /\ RestIdle

NextAgain ==
    \/ pc = "idle" /\ Execute(NoOverrides)
    \/ ExecuteAgain(NoOverrides)
    \/ SkipOnError
    \/ \E out \in HandlerOutcomes : Finalize(out)
    \/ \E out \in HandlerOutcomes : RunTask(out)
    \/ FinishRun

SpecAgain == InitAgain /\ [][NextAgain]_vars

\* --------------- SpecMut: one TaskList whose handlers change the list

\* Children with a handler that raises nothing but Exception.
InitMut ==
    /\ tasks \in UNION {[1..n -> {c \in TaskConfigs : c.handler = "fn"
                                                      /\ ~c.ignore_errors}]
                          : n \in 0..MaxTasks}
    /\ listed = [p \in 1..Len(tasks) |-> p]
    /\ self_ignore = FALSE
    /\ duration = FALSE
    /\ pc = "idle"
    /\ wrap_ignore = FALSE
    /\ enabled_tasks = <<>>
    /\ idx = 1
    /\ error = NoError
    /\ trace = <<>>
    /\ calls = [p \in 1..Len(tasks) |-> 0]
    /\ result = NoResult
    /\ ShellIdle
    /\ RestIdle

NextMut ==
    \/ Execute(NoOverrides)
    \/ SkipOnError
    \/ \E out \in {"ok", "Exception"} :
           \E mut \in Mutations(tasks) : FinalizeDoing(out, mut)
    \/ \E out \in {"ok", "Exception"} :
           \E mut \in Mutations(tasks) : RunTaskDoing(out, mut)
    \/ FinishRun

SpecMut == InitMut /\ [][NextMut]_vars

\* ------------------------------------------------- properties: TaskList

\* Positions of the trace holding an entry of kind k.
TracePos(k) == {q \in 1..Len(trace) : trace[q].kind = k}

\* The header lines of the trace, in order.
Headers == SelectSeq(trace, LAMBDA e : e.kind = "header")

\* The header line of the child at position p, if it was logged.
HeaderOf(p) == {q \in TracePos("header") : trace[q].task = p}

\* The last header line before trace position q (0: none).
LastHeaderBefore(q) ==
    LET before == {h \in TracePos("header") : h < q}
    IN IF before = {} THEN 0
       ELSE CHOOSE h \in before : \A g \in before : g <= h

\* An error line was logged before trace position q.
ErrorBefore(q) == \E r \in TracePos("error") : r < q

\* The loop of _run_tasks ran to its end.
LoopCompleted == pc = "done" /\ idx > N

\* A finalizer's own failure left _run_tasks in the middle of the loop.
FinalizerEscaped == pc = "done" /\ idx <= N

\* Every child has a handler bound (a task without one cannot be executed).
AllHandlersBound == \A p \in 1..Len(tasks) : tasks[p].handler = "fn"

\* C1: for every run and every position k, if enabled child k fails and is
\* not a finalizer, then every later enabled child with always=False is
\* skipped (header "skipped on error", handler never invoked) and every
\* later enabled child with always=True has its handler invoked exactly once
\* and its failure does not leave the list.  Stated for lists whose children
\* all have a handler.
C1_LaterChildrenSkippedOrFinalized ==
    (pc = "done" /\ AllHandlersBound) =>
        \A k \in 1..Len(tasks) :
            (tasks[k].enabled /\ ~tasks[k].always /\ error.origin = k) =>
                \A j \in (k + 1)..Len(tasks) :
                    tasks[j].enabled =>
                        IF tasks[j].always
                        THEN /\ calls[j] = 1
                             /\ ~(result.kind = "raise"
                                  /\ result.exc.origin = j)
                        ELSE /\ calls[j] = 0
                             /\ \E q \in HeaderOf(j) :
                                    trace[q].suffix = "skipped on error"

\* C2: whenever a child failed during a run, execute ends by raising the
\* exception object of the first failing child, after every enabled child
\* got its header line; no later failure of a finalizer replaces it.  Stated
\* for lists that do not ignore errors themselves and whose children all
\* have a handler.
C2_FirstErrorReraised ==
    (pc = "done" /\ error # NoError /\ ~wrap_ignore /\ AllHandlersBound) =>
        /\ result = Raised(error)
        /\ Len(Headers) = N
        /\ trace[Len(trace)] = SummaryLine(error)

\* C3: the events of a run occur in order: header lines [i/N] for
\* i = 1, 2, ... in list order, with the suffix the recorded error and the
\* child's always flag call for; a child is executed after its own header
\* and before the next one; the error line of a failing child lies between
\* its header and the next header; and execute raises to its caller only
\* after the header of the last enabled child.  The last part is stated for
\* lists whose children all have a handler.
C3_HeadersInOrder ==
    /\ \A i \in 1..Len(Headers) :
           /\ Headers[i].idx = i
           /\ Headers[i].total = N
           /\ Headers[i].task = enabled_tasks[i]
    /\ \A q \in TracePos("header") :
           trace[q].suffix =
               IF ~ErrorBefore(q) THEN ""
               ELSE IF tasks[trace[q].task].always THEN "finalizing"
               ELSE "skipped on error"

C3_ExecutedAfterOwnHeader ==
    \A q \in TracePos("call") \cup TracePos("error") :
        /\ LastHeaderBefore(q) # 0
        /\ trace[LastHeaderBefore(q)].task = trace[q].task

C3_RaisedAfterLastHeader ==
    (pc = "done" /\ result.kind = "raise" /\ AllHandlersBound) =>
        Len(Headers) = N

C3_LogOrder ==
    /\ C3_HeadersInOrder
    /\ C3_ExecutedAfterOwnHeader
    /\ C3_RaisedAfterLastHeader

\* What holds of every run whose loop ran to its end: the later children
\* of the first failing child are skipped or finalized, and the first error
\* is the one raised.
CompletedRunSkipsAndFinalizes ==
    LoopCompleted =>
        /\ \A j \in 1..Len(tasks) :
               (tasks[j].enabled /\ error # NoError /\ j > error.origin) =>
                   IF tasks[j].always THEN calls[j] = 1 ELSE calls[j] = 0
        /\ error # NoError => result = IF wrap_ignore
                                       THEN IgnoreErrors(Raised(error))
                                       ELSE Raised(error)
        /\ error = NoError => result = Returned
        /\ Len(Headers) = N

\* es holds exactly the children of the list ls that are enabled in ts, in
\* the order of the list.
IsEnabledSnapshot(es, ls, ts) ==
    /\ \A i \in 1..Len(ls) :
           ts[ls[i]].enabled <=> \E k \in 1..Len(es) : es[k] = ls[i]
    /\ \A k \in 1..Len(es) : \E i \in 1..Len(ls) : ls[i] = es[k]
    /\ \A k, m \in 1..Len(es) :
           k < m => \E i, j \in 1..Len(ls) :
                       i < j /\ ls[i] = es[k] /\ ls[j] = es[m]

\* C16: when a run starts, the children counted are exactly those of the
\* list that are enabled at that moment, in list order (N is their number);
\* that snapshot does not change while the run lasts, whatever the handlers
\* do to the list and to the enabled flags; and the i-th header line of the
\* run carries index i and total N and belongs to the i-th child of the
\* snapshot, so a child disabled at the start gets no header and no index.
C16_HeaderIndices ==
    /\ [][(pc' = "loop" /\ pc # "loop") =>
              IsEnabledSnapshot(enabled_tasks', listed, tasks)]_vars
    /\ [][pc = "loop" => enabled_tasks' = enabled_tasks]_vars
    /\ [](\A i \in 1..Len(Headers) :
              /\ Headers[i].idx = i
              /\ Headers[i].total = N
              /\ Headers[i].task = enabled_tasks[i])

\* A run of a list [disabled, enabled, enabled] has logged its two headers
\* [1/2] and [2/2] although its handlers left no enabled child in the list.
C16_Witness ==
    /\ pc = "done"
    /\ Len(tasks) = 3
    /\ N = 2
    /\ Len(Headers) = 2
    /\ Headers[1].task = 2
    /\ Headers[2].total = 2
    /\ EnabledTasks(listed, tasks) = <<>>

\* ---------------------------------------------------- properties: Shell

\* The default options the Shell was constructed with.
CtorOptions == heap[heap[TheShell].kwargs].items

\* An option as the call asked for it: the call's keyword, else the
\* constructor's, else the built-in default.
Requested(key, default) ==
    IF key \in DOMAIN call.kwargs THEN call.kwargs[key]
    ELSE IF key \in DOMAIN CtorOptions THEN CtorOptions[key]
    ELSE default

\* The environment of the Shell with the call's `env` laid over it.
PerCallEnv ==
    (IF IsNone(call.env) THEN <<>> ELSE call.env)
        @@ EnvGet(heap, heap[TheShell].env)

\* The error carries the command, the resolved working directory and the
\* per-call environment.
CarriesContext(e) ==
    /\ e.cmd = call.command
    /\ e.cwd = Requested("cwd", heap[TheShell].cwd)
    /\ EnvGet(heap, e.env) = PerCallEnv

DryRunOn == GetAttr("SideEffect", "is_dry_run")

\* The effect in force for the call: its `effect`, or the Shell's
\* default_effect when that is None.
EffectiveEffect ==
    IF call.effect_arg = None THEN heap[TheShell].default_effect
    ELSE call.effect_arg

Started == proc # NoProc

LogLines == SelectSeq(slog, LAMBDA e : e.kind = "log")

\* C4: whenever the subprocess of a Shell call has exited with a non-zero
\* status rc: if exit-code checking is enabled for the call (check, from
\* the call, else from the constructor, else True) the call raises a
\* ShellCommandError with that rc, the command, the resolved working
\* directory and the per-call environment; if it is disabled the call
\* returns a ShellResult whose rc is that status.
C4_NonZeroExit ==
    (spc = "done" /\ proc.state = "exited" /\ proc.returncode # 0) =>
        IF Requested("check", TRUE)
        THEN /\ sresult.kind = "raise"
             /\ sresult.exc.cls = "ShellCommandError"
             /\ sresult.exc.rc = proc.returncode
             /\ CarriesContext(sresult.exc)
        ELSE /\ sresult.kind = "return"
             /\ sresult.value = ShellResult(proc.returncode)

\* A checked call with its own env and cwd failed with status -1.
C4_Witness ==
    /\ spc = "done"
    /\ proc.state = "exited"
    /\ proc.returncode = -1
    /\ sresult.kind = "raise"
    /\ sresult.exc.rc = -1
    /\ ~IsNone(call.env)

\* C5: whenever the subprocess of a Shell call ran into its timeout, the
\* call raises a ShellTimeoutError whose timeout is the one requested for
\* the call, with the command, the resolved working directory and the
\* per-call environment; and whenever a ShellTimeoutError has been raised,
\* the subprocess was killed before.
C5_Timeout ==
    /\ (spc = "done" /\ proc.state = "killed") =>
           /\ sresult.kind = "raise"
           /\ sresult.exc.cls = "ShellTimeoutError"
           /\ sresult.exc.timeout = Requested("timeout", None)
           /\ CarriesContext(sresult.exc)
    /\ (sresult.kind = "raise" /\ sresult.exc.cls = "ShellTimeoutError") =>
           /\ proc.state = "killed"
           /\ slog[Len(slog)] = ProcKilled

\* A call with a timeout of 1.5 s (3 half seconds) timed out.
C5_Witness ==
    /\ spc = "done"
    /\ sresult.kind = "raise"
    /\ sresult.exc.cls = "ShellTimeoutError"
    /\ sresult.exc.timeout = 3
    /\ "timeout" \in DOMAIN call.kwargs

\* C6: a call of a SideEffect-wrapped callable, with dry-run on, does not
\* execute the body and returns the decorator's `returns` (None included);
\* with dry-run off it executes the body and returns the body's result.
\* The same for Shell's wrapped execute: with dry-run on no subprocess is
\* started and the decorator's `returns` is returned.
C6_DryRunReturns ==
    /\ (wrapped # NoCall /\ wrapped.kind = "SideEffect") =>
           IF DryRunOn
           THEN ~wrapped.executed /\ wrapped.value = wrapped.returns
           ELSE wrapped.executed /\ wrapped.value = wrapped.body
    /\ (spc = "done" /\ call.effect = "SideEffect" /\ DryRunOn) =>
           /\ ~Started
           /\ sresult.kind = "return"
           /\ sresult.value \in {call.dry_run_result, ShellResult(0)}

\* A decorated callable was called under dry-run and returned its `returns`.
C6_Witness ==
    /\ wrapped # NoCall
    /\ wrapped.kind = "SideEffect"
    /\ DryRunOn
    /\ ~wrapped.executed
    /\ wrapped.returns = "dry"
    /\ wrapped.value = "dry"

\* C7: in every Shell call the subprocess is started if and only if it is
\* not the case that the effective effect is SideEffect and dry-run is on.
C7_StartedUnlessSideEffectDryRun ==
    call.state = "called" =>
        (Started <=> ~(EffectiveEffect = "SideEffect" /\ DryRunOn))

\* C7, amended: the same for an effective effect that is a member of
\* Shell.Effect or None; with any other effect the call raises ValueError
\* and no subprocess is started.
C7_StartedUnlessDryRunOrBadEffect ==
    call.state = "called" =>
        IF EffectiveEffect \in Effects \cup {None}
        THEN Started <=> ~(EffectiveEffect = "SideEffect" /\ DryRunOn)
        ELSE ~Started /\ sresult = Raised([cls |-> "ValueError"])

\* Under dry-run a call that names no effect, on a Shell whose default is
\* SideEffect, ended without a subprocess.
C7_Witness ==
    /\ spc = "done"
    /\ call.effect_arg = None
    /\ heap[TheShell].default_effect = "SideEffect"
    /\ DryRunOn
    /\ ~Started

\* The description _ShellCommandPrinter logs for the call.
Description ==
    IF call.execution_message # None
    THEN <<LogLine("message", call.execution_message)>>
    ELSE <<LogLine("Working directory", Requested("cwd", heap[TheShell].cwd)),
           LogLine("Environment",
                   IF IsNone(call.env) THEN EnvGetOverrides(heap, heap[TheShell].env)
                   ELSE call.env @@ EnvGetOverrides(heap, heap[TheShell].env)),
           LogLine("Command", call.command)>>

\* The log-execution flag: LogExecution.should_log_execution.
LogExecutionOn == class_attrs["LogExecution"]["should_log_execution"]

\* C8: a Shell call logs its description exactly when (the effect is
\* LogExecution and the log-execution flag is on) or (the effect is
\* SideEffect and the log-execution flag or dry-run is on); the lines are
\* the execution_message, or the description of cwd, environment and
\* command; and they precede the start of the subprocess.
C8_LogsExactlyWhenFlagged ==
    call.state = "called" =>
        LET should ==
                \/ EffectiveEffect = "LogExecution" /\ LogExecutionOn
                \/ EffectiveEffect = "SideEffect"
                   /\ (LogExecutionOn \/ DryRunOn)
        IN /\ LogLines = IF should THEN Description ELSE <<>>
           /\ \A q \in 1..Len(slog) :
                  slog[q].kind = "log" =>
                      \A r \in 1..Len(slog) :
                          slog[r].kind = "start" => q < r

\* What holds of the log of every Shell call: it is as C8 says with, for
\* each effect, the should_log_execution its decorator class reads.
ShellLogsByFlagOfItsClass ==
    call.state = "called" =>
        LET should ==
                \/ EffectiveEffect = "LogExecution"
                   /\ GetAttr("LogExecution", "should_log_execution")
                \/ EffectiveEffect = "SideEffect"
                   /\ (GetAttr("SideEffect", "should_log_execution")
                       \/ DryRunOn)
        IN /\ LogLines = IF should THEN Description ELSE <<>>
           /\ \A q \in 1..Len(slog) :
                  slog[q].kind = "log" =>
                      \A r \in 1..Len(slog) :
                          slog[r].kind = "start" => q < r

\* The stored environment of the Shell: its ShellEnvironment and its two
\* dicts.
StoredEnv(h) ==
    LET e == h[TheShell].env
    IN [env |-> e, object |-> h[e], default |-> h[h[e].default],
        overrides |-> h[h[e].overrides]]

\* C9: no step of any Shell call changes the stored environment of the
\* Shell (the ShellEnvironment object, its base dict, its overrides dict),
\* whether the call returns or raises; and the environment the subprocess
\* of a call gets is the stored one with that call's `env` alone laid
\* over it.
C9_StoredEnvUnchanged ==
    /\ [][StoredEnv(heap') = StoredEnv(heap)]_vars
    /\ [](Started => proc.env = PerCallEnv)

\* A call with its own env has raised, and the stored environment does not
\* hold the call's override.
C9_Witness ==
    /\ spc = "done"
    /\ sresult.kind = "raise"
    /\ ~IsNone(call.env)
    /\ "B" \in DOMAIN call.env
    /\ "B" \notin DOMAIN EnvGet(heap, heap[TheShell].env)
    /\ Started
    /\ proc.env["B"] = "y"

\* C10: a mutation of one object (set() on it, a change of its cwd or of a
\* default option) changes what no other object shows: not the effective
\* environment get() of the object it was cloned from, nor that of a clone
\* of it; and clone() itself changes no existing object.
C10_ClonesAreIndependent ==
    [][\A i \in DOMAIN objs :
           i # target' => Observe(heap', objs[i]) = Observe(heap, objs[i])]_vars

\* The original was mutated after cloning (A, still the inherited value in
\* the clone) and the clone was mutated too (B, absent from the original).
C10_Witness ==
    /\ Len(objs) >= 2
    /\ target = 1
    /\ "A" \in DOMAIN Observe(heap, objs[1]).env
    /\ Observe(heap, objs[1]).env["A"] = "x"
    /\ "B" \notin DOMAIN Observe(heap, objs[1]).env
    /\ "A" \in DOMAIN Observe(heap, objs[2]).env
    /\ Observe(heap, objs[2]).env["A"] = "os"
    /\ "B" \in DOMAIN Observe(heap, objs[2]).env

\* ------------------------------------------------ Properties: Timeout

Factor(unit) ==
    IF unit = "hours" THEN 3600 ELSE IF unit = "minutes" THEN 60 ELSE 1

RECURSIVE TruncatedSum(_)
TruncatedSum(parts) ==
    IF parts = <<>> THEN 0
    ELSE Truncated(parts[1].num, Factor(parts[1].unit))
         + TruncatedSum(Tail(parts))

IsDuration(timeout) ==
    /\ timeout.type = "str"
    /\ timeout.parts # <<>>
    /\ \A i \in 1..Len(timeout.parts) : FloatOk(timeout.parts[i].num)

Parsed == pin.fn = "__to_seconds" /\ pout # NoCall

\* C14: a duration string of numbers, possibly decimal, each with a unit of
\* hours, minutes or seconds, parses to the sum of its components, each
\* converted to seconds and truncated to a whole number; a decimal number of
\* seconds is truncated like those of the other units.
C14_DurationIsTruncatedSum ==
    (Parsed /\ IsDuration(pin.timeout)) =>
        pout = Ok(IntValue(TruncatedSum(pin.timeout.parts)))

\* What holds of the code: the sum is returned when every number of seconds
\* is written without a dot, and ValueError is raised when one is not.
DurationIsTruncatedSumOrValueError ==
    (Parsed /\ IsDuration(pin.timeout)) =>
        IF \A i \in 1..Len(pin.timeout.parts) :
               pin.timeout.parts[i].unit \in {"hours", "minutes"}
               \/ IntOk(pin.timeout.parts[i].num)
        THEN pout = Ok(IntValue(TruncatedSum(pin.timeout.parts)))
        ELSE pout = Fails("ValueError")

\* ------------------------------------------- Properties: the task slot

\* The parameters a call of the handler can fill: of a bound method, those
\* after `self`.
Params(sig) ==
    IF sig.args # <<>> /\ sig.args[1] = "self" THEN Tail(sig.args)
    ELSE sig.args

AcceptsTask(sig) ==
    Contains(Params(sig), "task") \/ "task" \in sig.kwonly \/ sig.varkw

AlreadySupplied(b) ==
    \/ /\ Contains(Params(b.sig), "task")
       /\ Len(b.args) > IndexOf(Params(b.sig), "task")
    \/ "task" \in DOMAIN b.kwargs

Bound == pin.fn = "__real_args" /\ pout # NoCall

TaskSlotFilledAsAccepted(b) ==
    /\ pout.args = b.args
    /\ IF AcceptsTask(b.sig) /\ ~AlreadySupplied(b)
       THEN /\ DOMAIN pout.kwargs = DOMAIN b.kwargs \cup {"task"}
            /\ pout.kwargs["task"] = "self"
            /\ \A k \in DOMAIN b.kwargs : pout.kwargs[k] = b.kwargs[k]
       ELSE /\ DOMAIN pout.kwargs = DOMAIN b.kwargs
            /\ \A k \in DOMAIN b.kwargs : pout.kwargs[k] = b.kwargs[k]

\* C18: the task instance is supplied for the handler's `task` slot exactly
\* when the handler's signature accepts it (a parameter named task, or
\* **kwargs) and the slot was not supplied at binding, positionally or by
\* keyword; otherwise the bound arguments are passed unchanged.
C18_TaskSuppliedWhenAccepted ==
    Bound => TaskSlotFilledAsAccepted(pin.binding)

\* What holds of the code: the same, for a plain function whose `task`
\* parameter is not keyword-only.
PlainFunctionGetsTask ==
    (Bound /\ pin.binding.sig.kwonly = {}
           /\ Params(pin.binding.sig) = pin.binding.sig.args) =>
        TaskSlotFilledAsAccepted(pin.binding)

\* ------------------------------------------- Properties: Task.execute

Executed == tcall # NoCall /\ tcall.via = "execute" /\ tcall.state = "done"

TimedOut == tcall.timed /\ tcall.fired # "no"

\* C11: when the ignore_errors in force is true and the task has a timeout,
\* a timeout that fires during execute is ignored: execute returns normally
\* and no TimeoutError reaches the caller, wherever the signal is delivered
\* between the arming and the disarming of the timer.
C11_TimeoutIgnored ==
    (Executed /\ tcall.ignore /\ TimedOut) => tresult = Returned

\* What holds of the code: the timeout is ignored when the signal is
\* delivered inside the wrapped callable, and reaches the caller when it is
\* delivered in Timeout's own wrapper.
TimeoutIgnoredInsideCallable ==
    (Executed /\ tcall.ignore /\ TimedOut) =>
        IF tcall.fired = "body"
        THEN tresult = Returned
        ELSE tresult = Raised(TimeoutError(tcall.seconds, tcall.message))

\* The value execute was given for `key` if any, the stored one if not.
InForce(key) ==
    IF key \in DOMAIN tcall.overrides THEN tcall.overrides[key]
    ELSE ttask[key]

HandlerRaised == tcall.own = Raised(Exc("Exception", 0))

\* C12: in every call execute(**overrides) the ignore_errors and timeout in
\* force are those passed to execute when given and the construction-time
\* ones otherwise: a handler's exception is swallowed exactly when that
\* ignore_errors is true, the timer is armed with exactly that timeout; and
\* the call leaves the task's stored ignore_errors and timeout unchanged.
C12_OverridesWinForThisCall ==
    /\ [][ttask' = ttask]_vars
    /\ []((Executed /\ HandlerRaised /\ tcall.fired = "no") =>
             tresult = IF InForce("ignore_errors") THEN Returned
                       ELSE tcall.own)
    /\ []((tcall # NoCall /\ tcall.via = "execute" /\ tcall.invoked) =>
             /\ tcall.timed = Truthy(InForce("timeout"))
             /\ tcall.timed => tcall.seconds = InForce("timeout").v
             /\ alarm.armed =>
                    alarm.remaining + tcall.elapsed = InForce("timeout").v)

C12_Witness ==
    /\ Executed /\ HandlerRaised /\ tcall.fired = "no"
    /\ "ignore_errors" \in DOMAIN tcall.overrides
    /\ tcall.overrides["ignore_errors"] # ttask.ignore_errors
    /\ "timeout" \in DOMAIN tcall.overrides
    /\ tcall.overrides["timeout"] # ttask.timeout
    /\ tcall.timed
    /\ tresult = Returned

\* ------------------------------------------------ Properties: Timeout(d)

UnderTimeout == tcall # NoCall /\ tcall.via = "Timeout" /\ tcall.timed

ConfiguredMessage ==
    IF tcall.given = None THEN "Operation timed out." ELSE tcall.given

ExecuteCalled == tcall # NoCall /\ tcall.via = "execute"

\* C15: execute on a task whose enabled flag is false returns at once: the
\* handler is never invoked, nothing is logged, no timer is armed, whatever
\* the handler, ignore_errors and timeout, stored or passed to execute.
C15_DisabledReturnsAtOnce ==
    (ExecuteCalled /\ ~ttask.enabled) =>
        /\ tcall.state = "done"
        /\ tresult = Returned
        /\ ~tcall.invoked
        /\ ~tcall.logged
        /\ ~alarm.armed

C15_Witness ==
    /\ ExecuteCalled /\ ~ttask.enabled
    /\ ttask.handler = "fn"
    /\ ttask.ignore_errors
    /\ Truthy(ttask.timeout)
    /\ tresult = Returned

\* C17: a task with no handler bound cannot be executed: every execute call
\* on it raises ValueError, whatever its enabled flag, ignore_errors and
\* timeout.
C17_NoHandlerAlwaysFails ==
    (ExecuteCalled /\ ttask.handler = None) =>
        /\ tcall.state = "done"
        /\ tresult = Raised(Exc("ValueError", 0))

\* C17, amended: every execute call on an enabled task with no handler
\* raises ValueError at once, whatever ignore_errors and timeout are in
\* force; on a disabled one it returns without an error.
C17_NoHandlerFailsWhenEnabled ==
    (ExecuteCalled /\ ttask.handler = None) =>
        /\ tcall.state = "done"
        /\ ~tcall.invoked
        /\ ~alarm.armed
        /\ tresult = IF ttask.enabled THEN Raised(Exc("ValueError", 0))
                      ELSE Returned

C17_Witness ==
    /\ ExecuteCalled /\ ttask.handler = None
    /\ ttask.enabled
    /\ InForce("ignore_errors")
    /\ Truthy(InForce("timeout"))
    /\ tresult = Raised(Exc("ValueError", 0))

\* The same task as a child of a TaskList: its ValueError is recorded as the
\* list's error when no error was recorded before, and ends the run on the
\* spot when the child is run as a finalizer.
HandlerlessChildFails ==
    \A q \in TracePos("header") :
        (tasks[trace[q].task].handler = None
         /\ trace[q].suffix # "skipped on error") =>
            /\ calls[trace[q].task] = 0
            /\ IF trace[q].suffix = "finalizing"
               THEN /\ q = Len(trace)
                    /\ FinalizerEscaped /\ idx = trace[q].idx
                    /\ result = IF wrap_ignore THEN Returned
                                ELSE Raised(Exc("ValueError", trace[q].task))
               ELSE /\ q < Len(trace)
                    /\ trace[q + 1] =
                          ErrorLine(trace[q].task,
                                    Exc("ValueError", trace[q].task))

\* ---------------------------------------------- Properties: log prefix

\* The tag text of node i: `[tag] ` for a tagged list, nothing otherwise.
TagOf(i) ==
    IF nodes[i].kind = "TaskList" /\ nodes[i].tag # None
    THEN <<"[", nodes[i].tag, "] ">>
    ELSE <<>>

RECURSIVE ChainPrefix(_)
\* The prefix along a chain of nested executions, outermost first: the
\* tag text of the first, then two spaces and the tag text of each next.
ChainPrefix(chain) ==
    IF Len(chain) = 1 THEN TagOf(chain[1])
    ELSE ChainPrefix(SubSeq(chain, 1, Len(chain) - 1))
         \o <<"  ">> \o TagOf(chain[Len(chain)])

Logged == lastline # NoCall

\* C19: the log prefix of a task is computed recursively from its current
\* parent chain: a Task logs with its parent's prefix plus two spaces, or
\* with nothing when it has no parent; a TaskList with its parent's prefix
\* plus two spaces (nothing without a parent) followed by `[tag] ` if it has
\* a tag; so along nested executions the prefix is the outermost tag text,
\* then two spaces and the tag text for each level, at every depth.
C19_LogPrefix ==
    Logged =>
        LET i == lastline.node
            up == nodes[i].parent
        IN /\ lastline.prefix =
                 IF up = 0 THEN TagOf(i)
                 ELSE LogPrefix(nodes, up) \o <<"  ">> \o TagOf(i)
           /\ \A k \in 1..Len(stack) :
                 stack[k] = i =>
                     lastline.prefix = ChainPrefix(SubSeq(stack, 1, k))

\* A list tagged A is executing inside a list tagged B, and logs
\* `[B]   [A] `.
C19_Witness ==
    /\ Logged
    /\ Len(stack) = 2
    /\ lastline.node = stack[2]
    /\ nodes[stack[1]].tag = "B"
    /\ nodes[stack[2]].tag = "A"
    /\ lastline.prefix = <<"[", "B", "] ", "  ", "[", "A", "] ">>

\* ------------------------------------------- Properties: Task.Cleanup

\* Task.Cleanup(...): a child built with ignore_errors=True, always=True.
IsCleanup(p) == tasks[p].ignore_errors /\ tasks[p].always

FailedAt(p) == \E q \in TracePos("call") :
                  trace[q].task = p /\ trace[q].out # "ok"

\* C20: a task made by Task.Cleanup always runs and never aborts the list:
\* in every run in which it is enabled its handler is invoked, whether or
\* not an earlier child failed, and a failure of its own handler neither
\* causes a later child to be skipped nor makes the list's execute raise.
\* Stated for lists whose children all have a handler.
C20_CleanupAlwaysRunsNeverAborts ==
    (pc = "done" /\ AllHandlersBound) =>
        \A c \in 1..Len(tasks) :
            (IsCleanup(c) /\ tasks[c].enabled) =>
                /\ calls[c] = 1
                /\ FailedAt(c) =>
                      /\ error.origin # c
                      /\ ~(result.kind = "raise" /\ result.exc.origin = c)
                      /\ \A j \in (c + 1)..Len(tasks) :
                            tasks[j].enabled => HeaderOf(j) # {}

\* What holds of the code: the same, in runs in which no handler raises an
\* exception outside the Exception hierarchy.
CleanupRunsUnlessBaseException ==
    (pc = "done" /\ AllHandlersBound
     /\ \A q \in TracePos("call") : trace[q].out # "BaseException") =>
        \A c \in 1..Len(tasks) :
            (IsCleanup(c) /\ tasks[c].enabled) =>
                /\ calls[c] = 1
                /\ FailedAt(c) =>
                      /\ error.origin # c
                      /\ ~(result.kind = "raise" /\ result.exc.origin = c)
                      /\ \A j \in (c + 1)..Len(tasks) :
                            tasks[j].enabled => HeaderOf(j) # {}

\* ------------------------------------------- Properties: IgnoreErrors

\* The handler ran under IgnoreErrors alone, and the call is over.
RanIgnoringErrors ==
    Executed /\ tcall.ignore /\ ~tcall.timed /\ tcall.invoked

\* C22: a callable wrapped with IgnoreErrors returns the callable's result
\* when it returns normally, and for any failure the callable raises
\* swallows it and returns None: no failure of the callable reaches the
\* caller.
C22_IgnoreErrorsSwallowsAll ==
    RanIgnoringErrors => tresult = Returned

\* What holds of the code: exceptions of the Exception hierarchy are
\* swallowed, any other goes on to the caller.
IgnoreErrorsSwallowsExceptions ==
    RanIgnoringErrors =>
        tresult = IF tcall.own.kind = "raise"
                     /\ tcall.own.exc.cls = "BaseException"
                  THEN tcall.own
                  ELSE Returned

\* -------------------------------------------- Properties: dry_run_result

ShortCircuited == spc = "done" /\ call.effect = "SideEffect" /\ DryRunOn

\* C23: a Shell call that short-circuits under dry-run returns exactly the
\* caller's dry_run_result whenever one is supplied, and a ShellResult with
\* exit code 0 only when none is supplied.
C23_DryRunResultAsSupplied ==
    ShortCircuited =>
        /\ sresult.kind = "return"
        /\ sresult.value = IF call.dry_run_result.obj = None
                           THEN ShellResult(0)
                           ELSE call.dry_run_result

\* What holds of the code: a supplied result is returned when it is truthy;
\* None and every falsy result (an empty list) give ShellResult(0).
DryRunResultUnlessFalsy ==
    ShortCircuited =>
        /\ sresult.kind = "return"
        /\ sresult.value = IF Falsy(call.dry_run_result) THEN ShellResult(0)
                           ELSE call.dry_run_result

\* ------------------------------------------- Properties: call options

BuiltInKeys == {"text", "capture_output", "check", "cwd"}

BuiltIn(key) ==
    IF key = "cwd" THEN heap[TheShell].cwd
    ELSE IF key = "capture_output" THEN FALSE
    ELSE TRUE

\* C24: the options a Shell call forwards to the process layer are resolved
\* with three levels of precedence: a keyword of the call wins over the same
\* keyword of the constructor, which wins over the built-in defaults
\* (text=True, capture_output=False, check=True, cwd=the Shell's working
\* directory); and a call never changes the constructor's keywords or the
\* working directory that later calls see.
C24_OptionPrecedence ==
    /\ [](call.state = "called" =>
            /\ DOMAIN call.real_args =
                   BuiltInKeys \cup DOMAIN CtorOptions \cup DOMAIN call.kwargs
            /\ \A key \in DOMAIN call.real_args :
                   call.real_args[key] =
                       IF key \in BuiltInKeys
                       THEN Requested(key, BuiltIn(key))
                       ELSE Requested(key, None)
            /\ Started => proc.cwd = Requested("cwd", BuiltIn("cwd")))
    /\ [][/\ heap'[heap'[TheShell].kwargs].items = CtorOptions
          /\ heap'[TheShell].cwd = heap[TheShell].cwd]_vars

\* A call gave check the opposite of the constructor's value and the call's
\* value was forwarded, next to the built-in text and working directory.
C24_Witness ==
    /\ call.state = "called" /\ Started
    /\ "check" \in DOMAIN CtorOptions
    /\ "check" \in DOMAIN call.kwargs
    /\ call.kwargs["check"] # CtorOptions["check"]
    /\ call.real_args["check"] = call.kwargs["check"]
    /\ call.real_args["text"]
    /\ call.real_args["cwd"] = "/home"

\* ------------------------------------- Properties: ShellEnvironment.set

Base(h, r) == h[h[r].default].items

OverridesOf(h, r) == h[h[r].overrides].items

\* A dict is `base` with `over` laid on top, `over` winning.
IsMerge(d, base, over) ==
    /\ DOMAIN d = DOMAIN base \cup DOMAIN over
    /\ \A k \in DOMAIN d :
           d[k] = IF k \in DOMAIN over THEN over[k] ELSE base[k]

\* C25: after any sequence of set calls, get() is the base mapping merged
\* with the overrides, the overrides winning where both have a key; each set
\* leaves in the overrides, for every key it mentions, the value it gave and
\* leaves every other key as it was, so that the latest set that mentioned a
\* key decides; set(None) changes nothing; and every set returns the
\* environment it was called on.
C25_SetMergesAndChains ==
    /\ [](\A i \in DOMAIN objs :
            IsMerge(EnvGet(heap, objs[i]), Base(heap, objs[i]),
                    OverridesOf(heap, objs[i])))
    /\ [][pin'.fn = "set" =>
            LET r == pin'.self
                env == pin'.env
            IN /\ pout'.ref = r
               /\ IF IsNone(env)
                  THEN heap' = heap
                  ELSE IsMerge(OverridesOf(heap', r), OverridesOf(heap, r),
                               env)
               /\ Base(heap', r) = Base(heap, r)
               /\ \A j \in DOMAIN objs :
                      objs[j] # r =>
                          /\ OverridesOf(heap', objs[j])
                                 = OverridesOf(heap, objs[j])
                          /\ Base(heap', objs[j]) = Base(heap, objs[j])]_vars

\* A was set to x, then to y: get() gives y for A, over the os.environ value.
C25_Witness ==
    /\ pin # NoCall
    /\ pin.fn = "set"
    /\ ~IsNone(pin.env)
    /\ "A" \in DOMAIN pin.env
    /\ pin.env["A"] = "y"
    /\ pout.ref = 1
    /\ Base(heap, 1)["A"] = "os"
    /\ EnvGet(heap, 1)["A"] = "y"
    /\ "B" \in DOMAIN EnvGet(heap, 1)
    /\ "B" \notin DOMAIN pin.env

\* ------------------------------------- Properties: toggles read at call

\* What a call under decorator `kind` does when the log-execution flag is
\* `log` and dry-run is `dry`: whether it logs, whether it runs the callable.
Behaves(kind, log, dry, logged, executed) ==
    /\ logged = (log \/ (kind = "SideEffect" /\ dry))
    /\ executed = ~(kind = "SideEffect" /\ dry)

\* C26: the log-execution and dry-run toggles are read on every wrapped call,
\* not when the callable is decorated: after LogExecution.enabled(b) or
\* SideEffect.dry_run(b), the next call of every decorated callable, and
\* every Shell call, behaves according to the value last set.
C26_TogglesReadAtCall ==
    /\ wrapped # NoCall =>
           Behaves(wrapped.kind, LogExecutionOn, DryRunOn,
                   wrapped.logged, wrapped.executed)
    /\ (call.state = "called"
        /\ EffectiveEffect \in {"LogExecution", "SideEffect"}) =>
           Behaves(EffectiveEffect, LogExecutionOn, DryRunOn,
                   LogLines # <<>>, Started)

\* What holds of the code: every call behaves according to the current
\* dry-run value and the current should_log_execution of its own decorator
\* class.
TogglesOfOwnClassReadAtCall ==
    /\ wrapped # NoCall =>
           Behaves(wrapped.kind,
                   GetAttr(wrapped.kind, "should_log_execution"), DryRunOn,
                   wrapped.logged, wrapped.executed)
    /\ (call.state = "called"
        /\ EffectiveEffect \in {"LogExecution", "SideEffect"}) =>
           Behaves(EffectiveEffect,
                   GetAttr(EffectiveEffect, "should_log_execution"), DryRunOn,
                   LogLines # <<>>, Started)

\* ------------------------------------------ Properties: Runner.execute

\* The actor was called, and execute is over.
ActorRan == pin.fn = "execute" /\ pout # NoCall /\ pin.args.func = "Actor"

\* C27: Runner.execute maps the outcome of the actor to a return code: the
\* actor's own return value when it returns; the command's exit code for a
\* ShellCommandError; the configured timeout_exit_code for a
\* ShellTimeoutError and for nutcli's TimeoutError; 1 for any other exception
\* and for a keyboard interrupt; and no Exception leaves execute.
C27_RunnerReturnCode ==
    /\ ActorRan =>
           LET o == pin.args.outcome
           IN IF o.kind = "return" THEN pout = Ok(o.value)
              ELSE IF o.exc.cls = "ShellCommandError"
              THEN pout = Ok(IntValue(o.exc.rc))
              ELSE IF o.exc.cls \in {"ShellTimeoutError", "TimeoutError"}
              THEN pout = Ok(IntValue(pin.args.timeout_exit_code))
              ELSE IF o.exc.cls \in {"ShellError", "ValueError", "Exception",
                                     "KeyboardInterrupt"}
              THEN pout = Ok(IntValue(1))
              ELSE TRUE
    /\ (pin.fn = "execute" /\ pout # NoCall /\ ~pout.ok) =>
           pout.exc \notin {"ShellCommandError", "ShellTimeoutError",
                            "ShellError", "TimeoutError", "ValueError",
                            "Exception"}

\* The actor's command failed with status -1 under a timeout_exit_code of 2,
\* and execute returned -1.
C27_Witness ==
    /\ ActorRan
    /\ pin.args.outcome = Raised([cls |-> "ShellCommandError", rc |-> -1])
    /\ pin.args.timeout_exit_code = 2
    /\ pout = Ok(IntValue(-1))

\* ------------------- SpecAlarm: Timeout-wrapped calls inside one another

\* Most calls the outer callable makes.
MaxKids == 2

\* Seconds the outer call is watched for, from its setitimer on.
MaxClock == 4

\* signal.SIG_DFL, and Timeout.__signal_handler of the Timeout object of
\* call `who` built with `seconds`.
SigDfl == [who |-> "SIG_DFL", seconds |-> 0]

SignalHandler(who, seconds) == [who |-> who, seconds |-> seconds]

\* ITIMER_REAL, and the (delay, interval) setitimer gives back.
TimerOff == [armed |-> FALSE, remaining |-> 0]

TimerOf(s) == [armed |-> s.armed, remaining |-> s.remaining]

DefaultMessage == "Operation timed out."

\* The callables the outer one calls: a Timeout-wrapped function, or the
\* child of a TaskList with its ignore_errors, always and timeout
\* (seconds 0: no timeout, the callable is not wrapped; otherwise a timeout
\* that is not shorter than the outer one).
Kids(kind) ==
    IF kind = "TaskList"
    THEN [ignore_errors : BOOLEAN, always : BOOLEAN, seconds : {0, MaxSeconds}]
    ELSE [ignore_errors : {FALSE}, always : {FALSE}, seconds : {0, MaxSeconds}]

\* A call of Timeout's wrapper.  pos: "installed" (signal.signal done),
\* "armed" (setitimer done, try not entered), "body" (in the callable),
\* "finally" (the finally block entered), "restored" (the old timer set
\* again, the old handler not yet), "done".  What is kept of its past:
\* nested (it made a Timeout-wrapped call), late (an alarm was delivered in
\* a wrapper outside its try), overran (the callable was still running
\* `seconds` after the wrapper set its timer).
Wrapper(kind, seconds, kids) ==
    [kind |-> kind, seconds |-> seconds, kids |-> kids, pos |-> "idle",
     old_handler |-> SigDfl, old_timer |-> TimerOff, pending |-> NoResult,
     idx |-> 1, error |-> NoError, nested |-> FALSE, late |-> FALSE,
     overran |-> FALSE, result |-> NoResult]

\* The call of child or function `kid`; ignore: IgnoreErrors is around the
\* callable, inside Timeout's wrapper.
InnerCall(kid, ignore, pos, handler) ==
    [seconds |-> kid.seconds, ignore |-> ignore, pos |-> pos,
     old_handler |-> handler, old_timer |-> TimerOff, pending |-> NoResult]

AlarmDue == sigalrm.armed /\ sigalrm.remaining = 0

OuterRunning == ocall.pos \notin {"idle", "done"}

\* The body of the outer callable gets `outcome` from the call it made.  A
\* function lets an exception through; _run_tasks records it when no error
\* was recorded (`except BaseException`) and lets it through when the child
\* was run as a finalizer.
OuterAfter(o, outcome) ==
    IF outcome.kind # "raise"
    THEN [o EXCEPT !.idx = @ + 1]
    ELSE IF o.kind = "TaskList" /\ o.error = NoError
    THEN [o EXCEPT !.idx = @ + 1, !.error = outcome.exc]
    ELSE [o EXCEPT !.pending = outcome, !.pos = "finally"]

\* The inner call is over, by return or by exception.
InnerEnds(outcome) ==
    /\ icall' = NoCall
    /\ ocall' = OuterAfter(ocall, outcome)

\* The wrapped callable of the inner call is left with `outcome`.
InnerLeavesBody(outcome) ==
    LET after == IF icall.ignore THEN IgnoreErrors(outcome) ELSE outcome
    IN IF icall.seconds = 0
       THEN InnerEnds(after)
       ELSE /\ icall' = [icall EXCEPT !.pos = "finally", !.pending = after]
            /\ UNCHANGED ocall

\* Timeout(seconds)(function)() is called: `old_handler =
\* signal.signal(signal.SIGALRM, self.__signal_handler)`.
CallOuter ==
    /\ ocall.pos = "idle"
    /\ ocall' = [ocall EXCEPT !.pos = "installed",
                              !.old_handler = sigalrm.handler]
    /\ sigalrm' = [sigalrm EXCEPT
           !.handler = SignalHandler("outer", ocall.seconds)]
    /\ UNCHANGED <<icall, clock>>
    /\ UNCHANGED <<taskVars, shellVars, timedVars, nestVars, pureVars, pipeVars>>

\* The outer callable calls the next one: a child whose turn it is in
\* _run_tasks (as a finalizer with ignore_errors=True), or a function.
CallInner ==
    /\ ~AlarmDue
    /\ ocall.pos = "body" /\ icall = NoCall
    /\ ocall.idx <= Len(ocall.kids)
    /\ LET kid == ocall.kids[ocall.idx]
           ignore == IF ocall.error # NoError THEN TRUE
                     ELSE kid.ignore_errors
       IN /\ ocall.error # NoError => kid.always
          /\ IF kid.seconds = 0
             THEN /\ icall' = InnerCall(kid, ignore, "body", SigDfl)
                  /\ UNCHANGED sigalrm
             ELSE /\ icall' = InnerCall(kid, ignore, "installed",
                                        sigalrm.handler)
                  /\ sigalrm' = [sigalrm EXCEPT
                         !.handler = SignalHandler("inner", kid.seconds)]
          /\ ocall' = [ocall EXCEPT !.nested = @ \/ kid.seconds # 0]
    /\ UNCHANGED clock
    /\ UNCHANGED <<taskVars, shellVars, timedVars, nestVars, pureVars, pipeVars>>

\* _run_tasks: `error is not None and not task.always`.
SkipKid ==
    /\ ~AlarmDue
    /\ ocall.pos = "body" /\ icall = NoCall
    /\ ocall.idx <= Len(ocall.kids)
    /\ ocall.error # NoError /\ ~ocall.kids[ocall.idx].always
    /\ ocall' = [ocall EXCEPT !.idx = @ + 1]
    /\ UNCHANGED <<sigalrm, icall, clock>>
    /\ UNCHANGED <<taskVars, shellVars, timedVars, nestVars, pureVars, pipeVars>>

\* The wrapper in progress: the inner one while there is an inner call.
Innermost == IF icall # NoCall THEN icall ELSE ocall

SetInnermost(c) ==
    IF icall # NoCall
    THEN icall' = c /\ UNCHANGED ocall
    ELSE ocall' = c /\ UNCHANGED icall

\* `old_timer = signal.setitimer(signal.ITIMER_REAL, self.seconds)`
ArmTimer ==
    /\ ~AlarmDue
    /\ Innermost.pos = "installed"
    /\ SetInnermost([Innermost EXCEPT !.pos = "armed",
                                      !.old_timer = TimerOf(sigalrm)])
    /\ sigalrm' = [sigalrm EXCEPT !.armed = TRUE,
                                  !.remaining = Innermost.seconds]
    /\ UNCHANGED clock
    /\ UNCHANGED <<taskVars, shellVars, timedVars, nestVars, pureVars, pipeVars>>

\* `try: return function(*args, **kwargs)`
EnterTry ==
    /\ ~AlarmDue
    /\ Innermost.pos = "armed"
    /\ SetInnermost([Innermost EXCEPT !.pos = "body"])
    /\ UNCHANGED <<sigalrm, clock>>
    /\ UNCHANGED <<taskVars, shellVars, timedVars, nestVars, pureVars, pipeVars>>

\* The inner callable returns or raises.
InnerBodyEnds(out) ==
    /\ ~AlarmDue
    /\ icall # NoCall /\ icall.pos = "body"
    /\ InnerLeavesBody(IF out = "ok" THEN Returned
                       ELSE Raised(Exc(out, ocall.idx)))
    /\ UNCHANGED <<sigalrm, clock>>
    /\ UNCHANGED <<taskVars, shellVars, timedVars, nestVars, pureVars, pipeVars>>

\* The outer callable has made its calls: a function returns, _run_tasks
\* re-raises the recorded error.
OuterBodyEnds ==
    /\ ~AlarmDue
    /\ ocall.pos = "body" /\ icall = NoCall
    /\ ocall.idx > Len(ocall.kids)
    /\ ocall' = [ocall EXCEPT
           !.pos = "finally",
           !.pending = IF ocall.error # NoError THEN Raised(ocall.error)
                       ELSE Returned]
    /\ UNCHANGED <<sigalrm, icall, clock>>
    /\ UNCHANGED <<taskVars, shellVars, timedVars, nestVars, pureVars, pipeVars>>

\* finally: `signal.setitimer(signal.ITIMER_REAL, *old_timer)`
RestoreTimer ==
    /\ ~AlarmDue
    /\ Innermost.pos = "finally"
    /\ SetInnermost([Innermost EXCEPT !.pos = "restored"])
    /\ sigalrm' = [sigalrm EXCEPT
           !.armed = Innermost.old_timer.armed,
           !.remaining = Innermost.old_timer.remaining]
    /\ UNCHANGED clock
    /\ UNCHANGED <<taskVars, shellVars, timedVars, nestVars, pureVars, pipeVars>>

\* finally: `signal.signal(signal.SIGALRM, old_handler)`, and the wrapper
\* returns or raises what is pending.
RestoreHandler ==
    /\ ~AlarmDue
    /\ Innermost.pos = "restored"
    /\ sigalrm' = [sigalrm EXCEPT !.handler = Innermost.old_handler]
    /\ IF icall # NoCall
       THEN InnerEnds(icall.pending)
       ELSE /\ ocall' = [ocall EXCEPT !.pos = "done",
                                      !.result = ocall.pending]
            /\ UNCHANGED icall
    /\ UNCHANGED clock
    /\ UNCHANGED <<taskVars, shellVars, timedVars, nestVars, pureVars, pipeVars>>

\* A second passes, in whatever the process is doing once the outer call
\* has set its timer (before that no timer is set and `clock` stands still).
TimePasses ==
    /\ ~AlarmDue
    /\ OuterRunning
    /\ ocall.pos # "installed"
    /\ clock < MaxClock
    /\ clock' = clock + 1
    /\ sigalrm' = IF sigalrm.armed THEN [sigalrm EXCEPT !.remaining = @ - 1]
                  ELSE sigalrm
    /\ ocall' = [ocall EXCEPT
           !.overran = @ \/ (ocall.pos = "body"
                             /\ clock + 1 >= ocall.seconds)]
    /\ UNCHANGED icall
    /\ UNCHANGED <<taskVars, shellVars, timedVars, nestVars, pureVars, pipeVars>>

\* The timer expires (it is not reloaded) and the installed handler raises
\* its TimeoutError where the interpreter is: in a callable, the exception
\* goes through IgnoreErrors and the try of the wrapper; in a wrapper outside
\* its try, it leaves the wrapper at once.
AlarmFires ==
    /\ AlarmDue
    /\ sigalrm' = [sigalrm EXCEPT !.armed = FALSE]
    /\ LET e == Raised(TimeoutError(sigalrm.handler.seconds, DefaultMessage))
       IN IF icall # NoCall
          THEN IF icall.pos = "body"
               THEN InnerLeavesBody(e)
               ELSE /\ icall' = NoCall
                    /\ ocall' = [OuterAfter(ocall, e) EXCEPT !.late = TRUE]
          ELSE /\ UNCHANGED icall
               /\ IF ocall.pos = "body"
                  THEN ocall' = [ocall EXCEPT !.pos = "finally",
                                              !.pending = e]
                  ELSE ocall' = [ocall EXCEPT !.pos = "done", !.result = e,
                                              !.late = TRUE]
    /\ UNCHANGED clock
    /\ UNCHANGED <<taskVars, shellVars, timedVars, nestVars, pureVars, pipeVars>>

\* A process with no alarm set, and the outer callable about to be called.
InitAlarm ==
    /\ TaskIdle
    /\ ShellIdle
    /\ TimedIdle
    /\ NestIdle
    /\ PureIdle
    /\ owner = NoCall
    /\ pipes = <<>>
    /\ sigalrm = [handler |-> SigDfl, armed |-> FALSE, remaining |-> 0]
    /\ \E kind \in {"function", "TaskList"} :
           \E seconds \in 1..MaxSeconds :
               \E kids \in UNION {[1..n -> Kids(kind)] : n \in 0..MaxKids} :
                   ocall = Wrapper(kind, seconds, kids)
    /\ icall = NoCall
    /\ clock = 0

NextAlarm ==
    \/ CallOuter
    \/ CallInner
    \/ SkipKid
    \/ ArmTimer
    \/ EnterTry
    \/ \E out \in {"ok", "Exception"} : InnerBodyEnds(out)
    \/ OuterBodyEnds
    \/ RestoreTimer
    \/ RestoreHandler
    \/ TimePasses
    \/ AlarmFires

SpecAlarm == InitAlarm /\ [][NextAlarm]_vars

\* ------------------- SpecList: a TaskList used as a list

\* Longest list the operations build.
MaxLen == 3

\* The Task objects put into the lists, by identity.
Items == 1..MaxTasks

ItemLists == UNION {[1..n -> Items] : n \in 0..MaxLen}

\* Indexes the operations are given: in range, negative, out of range.
Indexes == (0 - (MaxLen + 1))..(MaxLen + 1)

TaskValue(p) == [type |-> "Task", id |-> p]

BoolValue(b) == [type |-> "bool", b |-> b]

ListValue(l) == [type |-> "list", items |-> l]

\* A list operation: the list it leaves and what it returns or raises.
Done(l, ret) == [list |-> l, ret |-> ret]

\* Python's list.  Where l[i] is, counted from 1; 0 when i is out of range.
Position(l, i) ==
    IF i >= 0 /\ i < Len(l) THEN i + 1
    ELSE IF i < 0 /\ 0 - i <= Len(l) THEN Len(l) + i + 1
    ELSE 0

RemoveAt(l, p) == SubSeq(l, 1, p - 1) \o SubSeq(l, p + 1, Len(l))

ListAppend(l, item) == Done(Append(l, item), Ok(NoneValue))

ListExtend(l, iterable) == Done(l \o iterable, Ok(NoneValue))

\* list.insert clamps the index to the ends of the list.
ListInsert(l, index, item) ==
    LET i == IF index < 0 THEN index + Len(l) ELSE index
        before == IF i < 0 THEN 0 ELSE IF i > Len(l) THEN Len(l) ELSE i
    IN Done(SubSeq(l, 1, before) \o <<item>> \o SubSeq(l, before + 1, Len(l)),
            Ok(NoneValue))

ListRemove(l, item) ==
    IF Contains(l, item)
    THEN Done(RemoveAt(l, IndexOf(l, item) + 1), Ok(NoneValue))
    ELSE Done(l, Fails("ValueError"))

\* list.pop(index=-1); args is what the caller passes.
ListPop(l, args) ==
    LET index == IF args = <<>> THEN 0 - 1 ELSE args[1]
        p == Position(l, index)
    IN IF p = 0 THEN Done(l, Fails("IndexError"))
       ELSE Done(RemoveAt(l, p), Ok(TaskValue(l[p])))

ListClear(l) == Done(<<>>, Ok(NoneValue))

ListLen(l) == Done(l, Ok(IntValue(Len(l))))

ListGetItem(l, key) ==
    IF Position(l, key) = 0 THEN Done(l, Fails("IndexError"))
    ELSE Done(l, Ok(TaskValue(l[Position(l, key)])))

ListSetItem(l, key, value) ==
    IF Position(l, key) = 0 THEN Done(l, Fails("IndexError"))
    ELSE Done([l EXCEPT ![Position(l, key)] = value], Ok(NoneValue))

ListDelItem(l, key) ==
    IF Position(l, key) = 0 THEN Done(l, Fails("IndexError"))
    ELSE Done(RemoveAt(l, Position(l, key)), Ok(NoneValue))

\* list(iter(l))
ListIter(l) == Done(l, Ok(ListValue(l)))

ListContains(l, item) == Done(l, Ok(BoolValue(Contains(l, item))))

\* TaskList.pop taking the first child when no index is given.
TaskListPopFirst(ts, args) ==
    LET index == IF args = <<>> THEN 0 ELSE args[1]
    IN ListPop(ts, <<index>>)

\* TaskList's list methods: each hands its arguments to self.tasks.
TaskListAppend(ts, item) == ListAppend(ts, item)

TaskListExtend(ts, item) == ListExtend(ts, item)

TaskListInsert(ts, index, item) == ListInsert(ts, index, item)

TaskListRemove(ts, item) == ListRemove(ts, item)

\* def pop(self, index=-1): return self.tasks.pop(index)
TaskListPop(ts, args) ==
    LET index == IF args = <<>> THEN 0 - 1 ELSE args[1]
    IN ListPop(ts, <<index>>)

TaskListClear(ts) == ListClear(ts)

TaskListLen(ts) == ListLen(ts)

TaskListGetItem(ts, key) == ListGetItem(ts, key)

\* self.tasks[key] = value: a statement, so the method returns None.
TaskListSetItem(ts, key, value) ==
    LET done == ListSetItem(ts, key, value)
    IN IF done.ret.ok THEN Done(done.list, Ok(NoneValue)) ELSE done

\* del self.tasks[key]
TaskListDelItem(ts, key) ==
    LET done == ListDelItem(ts, key)
    IN IF done.ret.ok THEN Done(done.list, Ok(NoneValue)) ELSE done

TaskListIter(ts) == ListIter(ts)

TaskListContains(ts, item) == ListContains(ts, item)

\* One operation applied to the TaskList (done) and to the native list
\* (native): both lists and both results are kept.
Applied(fn, args, done, native) ==
    /\ pin # NoCall
    /\ Len(done.list) <= MaxLen
    /\ Len(native.list) <= MaxLen
    /\ listed' = done.list
    /\ pin' = [fn |-> fn, args |-> args]
    /\ pout' = [ret |-> done.ret, list |-> native.list, list_ret |-> native.ret]
    /\ UNCHANGED <<tasks, self_ignore, duration, pc, wrap_ignore,
                   enabled_tasks, idx, error, trace, calls, result>>
    /\ UNCHANGED <<shellVars, timedVars, nestVars, pipeVars, alarmVars>>

AppendItem(item) ==
    Applied("append", <<item>>,
            TaskListAppend(listed, item), ListAppend(pout.list, item))

ExtendItems(items) ==
    Applied("extend", <<items>>,
            TaskListExtend(listed, items), ListExtend(pout.list, items))

InsertItem(index, item) ==
    Applied("insert", <<index, item>>,
            TaskListInsert(listed, index, item),
            ListInsert(pout.list, index, item))

RemoveItem(item) ==
    Applied("remove", <<item>>,
            TaskListRemove(listed, item), ListRemove(pout.list, item))

PopItem(args) ==
    Applied("pop", args, TaskListPop(listed, args), ListPop(pout.list, args))

ClearItems ==
    Applied("clear", <<>>, TaskListClear(listed), ListClear(pout.list))

LenOf ==
    Applied("__len__", <<>>, TaskListLen(listed), ListLen(pout.list))

GetItem(key) ==
    Applied("__getitem__", <<key>>,
            TaskListGetItem(listed, key), ListGetItem(pout.list, key))

SetItem(key, value) ==
    Applied("__setitem__", <<key, value>>,
            TaskListSetItem(listed, key, value),
            ListSetItem(pout.list, key, value))

DelItem(key) ==
    Applied("__delitem__", <<key>>,
            TaskListDelItem(listed, key), ListDelItem(pout.list, key))

IterItems ==
    Applied("__iter__", <<>>, TaskListIter(listed), ListIter(pout.list))

ContainsItem(item) ==
    Applied("__contains__", <<item>>,
            TaskListContains(listed, item), ListContains(pout.list, item))

\* tasklist = TaskList() and an empty native list.
InitList ==
    /\ TaskIdle
    /\ ShellIdle
    /\ TimedIdle
    /\ NestIdle
    /\ PipeIdle
    /\ AlarmIdle
    /\ pin = [fn |-> "__init__", args |-> <<>>]
    /\ pout = [ret |-> Ok(NoneValue), list |-> <<>>, list_ret |-> Ok(NoneValue)]

NextList ==
    \/ \E item \in Items : AppendItem(item)
    \/ \E items \in ItemLists : ExtendItems(items)
    \/ \E index \in Indexes : \E item \in Items : InsertItem(index, item)
    \/ \E item \in Items : RemoveItem(item)
    \/ \E args \in {<<>>} \cup {<<i>> : i \in Indexes} : PopItem(args)
    \/ ClearItems
    \/ LenOf
    \/ \E key \in Indexes : GetItem(key)
    \/ \E key \in Indexes : \E value \in Items : SetItem(key, value)
    \/ \E key \in Indexes : DelItem(key)
    \/ IterItems
    \/ \E item \in Items : ContainsItem(item)

SpecList == InitList /\ [][NextList]_vars

\* ------------------------------------------------- properties: SpecList

\* C28: after any sequence of append, extend, insert, remove, pop, clear,
\* indexed get/set/delete, len, iteration and membership operations, the
\* TaskList's children are the native list's items, and the last operation
\* returned or raised for the TaskList what it did for the native list.
C28_TaskListIsAList ==
    pin # NoCall =>
        /\ listed = pout.list
        /\ pout.ret = pout.list_ret

\* pop() without an index took the last of three children and returned it.
C28_Witness ==
    /\ pin # NoCall
    /\ pin.fn = "pop"
    /\ pin.args = <<>>
    /\ Len(listed) = 2
    /\ listed[1] # listed[2]
    /\ pout.ret.ok
    /\ pout.ret.value \notin {TaskValue(listed[1]), TaskValue(listed[2])}
    /\ pout.ret = pout.list_ret

\* ------------------- SpecPipe: ShellOutputPipe and ShellLoggerPipe

\* Most lines written to one pipe.
MaxLines == 2

\* A line in the byte stream: the n-th written to its pipe, and whether its
\* bytes decode as UTF-8.
Line(n, utf8) == [n |-> n, utf8 |-> utf8]

\* ShellOutputPipe.__init__: the pipe is open, the thread started.  fds are
\* the holders of its write end: write_file, and a subprocess given it as
\* stdout or stderr.  unflushed: the lines in the buffer of write_file;
\* buffer: the lines in the pipe.
OutputPipe(fds) ==
    [fds |-> fds, closed |-> FALSE, unflushed |-> <<>>, buffer |-> <<>>,
     written |-> 0, state |-> "read", line |-> Line(0, TRUE),
     passed |-> <<>>, failed |-> FALSE]

\* The streams (stdout, stderr) of the object closed, as indexes in pipes.
\* ShellLoggerPipe.__init__: one pipe for both unless split.
Streams(cls, split) ==
    IF cls = "ShellOutputPipe" THEN <<1>>
    ELSE IF split THEN <<1, 2>>
    ELSE <<1, 1>>

\* write_file.close() flushes what write_file holds into the pipe; with the
\* read end closed by the reader thread the flush raises BrokenPipeError.
FlushRaises(pipe) ==
    /\ ~pipe.closed
    /\ pipe.unflushed # <<>>
    /\ pipe.state = "terminated"

\* ShellOutputPipe.close up to join(): `if not self.closed:
\* self.write_file.close()`, `self.closed = True`.  When the flush raises,
\* the file is closed all the same and self.closed is not set.
CloseWriteFile(pipe) ==
    IF pipe.closed THEN pipe
    ELSE IF FlushRaises(pipe)
    THEN [pipe EXCEPT !.fds = @ \ {"write_file"}, !.unflushed = <<>>]
    ELSE [pipe EXCEPT !.fds = @ \ {"write_file"},
                      !.buffer = @ \o pipe.unflushed,
                      !.unflushed = <<>>,
                      !.closed = TRUE]

\* write_file.write(line) by the owner of a ShellOutputPipe, of a line that
\* is UTF-8: the line stays in the buffer of write_file until a flush.
WriteBuffered(k) ==
    /\ owner # NoCall
    /\ owner.at = "open"
    /\ owner.cls = "ShellOutputPipe"
    /\ k \in DOMAIN pipes
    /\ "write_file" \in pipes[k].fds
    /\ pipes[k].written < MaxLines
    /\ pipes' = [pipes EXCEPT
           ![k].written = @ + 1,
           ![k].unflushed = Append(@, Line(pipes[k].written + 1, TRUE))]
    /\ UNCHANGED owner
    /\ UNCHANGED <<taskVars, shellVars, timedVars, nestVars, pureVars, alarmVars>>

\* A holder of the write end writes one line into the pipe: the subprocess,
\* or the owner with write_file.write(line) and write_file.flush().  A pipe
\* whose read end is closed takes no more lines.
WriteLine(k, who, utf8) ==
    /\ owner # NoCall
    /\ k \in DOMAIN pipes
    /\ who \in pipes[k].fds
    /\ who = "write_file" => owner.at = "open"
    /\ pipes[k].state # "terminated"
    /\ pipes[k].written < MaxLines
    /\ pipes' = [pipes EXCEPT
           ![k].written = @ + 1,
           ![k].buffer =
               IF who = "write_file"
               THEN Append(@ \o pipes[k].unflushed,
                           Line(pipes[k].written + 1, utf8))
               ELSE Append(@, Line(pipes[k].written + 1, utf8)),
           ![k].unflushed = IF who = "write_file" THEN <<>> ELSE @]
    /\ UNCHANGED owner
    /\ UNCHANGED <<taskVars, shellVars, timedVars, nestVars, pureVars, alarmVars>>

\* The subprocess exits: its copy of the write end is closed.
SubprocessExits(k) ==
    /\ k \in DOMAIN pipes
    /\ "child" \in pipes[k].fds
    /\ pipes' = [pipes EXCEPT ![k].fds = @ \ {"child"}]
    /\ UNCHANGED owner
    /\ UNCHANGED <<taskVars, shellVars, timedVars, nestVars, pureVars, alarmVars>>

\* run: `line = self._read_line()` gets a line.  decode('utf-8') raises on
\* bytes that are not UTF-8: `except Exception: pass`, and the thread ends.
ReadLine(k) ==
    /\ k \in DOMAIN pipes
    /\ pipes[k].state = "read"
    /\ pipes[k].buffer # <<>>
    /\ LET line == Head(pipes[k].buffer)
       IN pipes' = [pipes EXCEPT
              ![k].buffer = Tail(@),
              ![k].line = line,
              ![k].state = IF line.utf8 THEN "callback" ELSE "terminated",
              ![k].failed = ~line.utf8]
    /\ UNCHANGED owner
    /\ UNCHANGED <<taskVars, shellVars, timedVars, nestVars, pureVars, alarmVars>>

\* run: _read_line returns '' at end of file, which is when every holder of
\* the write end has closed it: `break`, and the thread ends.
ReadEOF(k) ==
    /\ k \in DOMAIN pipes
    /\ pipes[k].state = "read"
    /\ pipes[k].buffer = <<>>
    /\ pipes[k].fds = {}
    /\ pipes' = [pipes EXCEPT ![k].state = "terminated"]
    /\ UNCHANGED owner
    /\ UNCHANGED <<taskVars, shellVars, timedVars, nestVars, pureVars, alarmVars>>

\* run: `self.callback(line)`.  A callback that raises ends the thread
\* (`except Exception: pass`).
Callback(k, raises) ==
    /\ k \in DOMAIN pipes
    /\ pipes[k].state = "callback"
    /\ pipes' = [pipes EXCEPT
           ![k].passed = Append(@, pipes[k].line.n),
           ![k].state = IF raises THEN "terminated" ELSE "read",
           ![k].failed = raises]
    /\ UNCHANGED owner
    /\ UNCHANGED <<taskVars, shellVars, timedVars, nestVars, pureVars, alarmVars>>

\* close(), __exit__ (with or without an exception) or __del__ is called:
\* the first stream's write_file is closed and the caller waits in join(),
\* unless closing the file raised.  Called on a closed object, or after a
\* call that raised, it goes the same way.
Close(via) ==
    /\ owner # NoCall
    /\ owner.at \in {"open", "returned", "raised"}
    /\ owner' = [owner EXCEPT
           !.at = IF FlushRaises(pipes[owner.streams[1]])
                  THEN "raised" ELSE "join",
           !.closing = 1,
           !.via = via,
           !.before = IF owner.at = "open"
                      THEN [k \in DOMAIN pipes |-> pipes[k].written]
                      ELSE @]
    /\ pipes' = [pipes EXCEPT ![owner.streams[1]] = CloseWriteFile(@)]
    /\ UNCHANGED <<taskVars, shellVars, timedVars, nestVars, pureVars, alarmVars>>

\* join() returns once the thread has ended.  ShellLoggerPipe.close goes on
\* to self.stderr.close(); then close returns.
JoinReturns ==
    /\ owner # NoCall
    /\ owner.at = "join"
    /\ pipes[owner.streams[owner.closing]].state = "terminated"
    /\ IF owner.closing < Len(owner.streams)
       THEN /\ owner' = [owner EXCEPT
                   !.closing = @ + 1,
                   !.at = IF FlushRaises(
                                 pipes[owner.streams[owner.closing + 1]])
                          THEN "raised" ELSE "join"]
            /\ pipes' = [pipes EXCEPT ![owner.streams[owner.closing + 1]] =
                                           CloseWriteFile(@)]
       ELSE /\ owner' = [owner EXCEPT !.at = "returned"]
            /\ UNCHANGED pipes
    /\ UNCHANGED <<taskVars, shellVars, timedVars, nestVars, pureVars, alarmVars>>

\* A ShellOutputPipe, or a ShellLoggerPipe with one or two of them, just
\* constructed; each write end may have been given to a subprocess.
InitPipe ==
    /\ TaskIdle
    /\ ShellIdle
    /\ TimedIdle
    /\ NestIdle
    /\ PureIdle
    /\ AlarmIdle
    /\ \E cls \in {"ShellOutputPipe", "ShellLoggerPipe"} :
           \E split \in BOOLEAN :
               /\ cls = "ShellOutputPipe" => ~split
               /\ owner = [cls |-> cls, split |-> split,
                           streams |-> Streams(cls, split), at |-> "open",
                           closing |-> 0, via |-> None, before |-> <<>>]
               /\ pipes \in [1..(IF split THEN 2 ELSE 1) ->
                                {OutputPipe({"write_file"}),
                                 OutputPipe({"write_file", "child"})}]

NextPipe ==
    \/ \E k \in 1..2 : \E who \in {"write_file", "child"} :
           \E utf8 \in BOOLEAN : WriteLine(k, who, utf8)
    \/ WriteBuffered(1)
    \/ \E k \in 1..2 : SubprocessExits(k)
    \/ \E k \in 1..2 : ReadLine(k)
    \/ \E k \in 1..2 : ReadEOF(k)
    \/ \E k \in 1..2 : \E raises \in BOOLEAN : Callback(k, raises)
    \/ \E via \in {"close", "__exit__", "__del__"} : Close(via)
    \/ JoinReturns

SpecPipe == InitPipe /\ [][NextPipe]_vars

\* ------------------------------------------------- properties: SpecPipe

\* close has returned.
CloseReturned == owner # NoCall /\ owner.at = "returned"

\* Every line written to pipe k before close was called has been passed to
\* the callback.
Drained(k) ==
    \A n \in 1..owner.before[k] :
        \E i \in 1..Len(pipes[k].passed) : pipes[k].passed[i] = n

\* C29: when close (close(), leaving the with block, teardown) has returned,
\* every reader thread has terminated and every line written to the pipe
\* before the close has been passed to the callback or logger.
C29_CloseJoinsAndDrains ==
    CloseReturned =>
        \A k \in DOMAIN pipes :
            /\ pipes[k].state = "terminated"
            /\ Drained(k)

\* When close has returned every reader thread has terminated.
CloseJoinsReaders ==
    CloseReturned => \A k \in DOMAIN pipes : pipes[k].state = "terminated"

\* When close has returned, a pipe whose reader ended at end of file has
\* passed on every line written to it.
CloseDrainsUnlessReaderFailed ==
    CloseReturned =>
        \A k \in DOMAIN pipes :
            ~pipes[k].failed =>
                /\ Len(pipes[k].passed) = pipes[k].written
                /\ \A n \in 1..pipes[k].written :
                       \E i \in 1..Len(pipes[k].passed) :
                           pipes[k].passed[i] = n

\* Two lines were written, the callback raised on the first, and close
\* returned with the second never passed on.
LineLostAfterCallbackRaised ==
    /\ CloseReturned
    /\ \E k \in DOMAIN pipes :
           /\ owner.before[k] = 2
           /\ pipes[k].passed = <<1>>
           /\ pipes[k].line.utf8

\* ------------------------------------------- properties: error lines

\* execute() of the list ended by raising e.
ExecuteRaised(e) == pc = "done" /\ result = Raised(e)

\* The list logged `ERROR <class>: <message>` for e.
ErrorLogged(e) == \E q \in TracePos("error") : trace[q].exc = e

\* C21: every failure, before it reaches the caller of execute, has
\* produced at least one logged error line that carries the exception's type
\* name and message: when execute of the list has raised an exception, the
\* log of the run holds an error line for that exception.
C21_FailureLogged ==
    \A cls \in ExcClasses : \A p \in 1..Len(tasks) :
        ExecuteRaised(Exc(cls, p)) => ErrorLogged(Exc(cls, p))

\* A failure that leaves execute from the loop's end has its error line and
\* then the summary line; one that leaves from a finalizer has neither.
FailureLoggedUnlessFinalizer ==
    \A cls \in ExcClasses : \A p \in 1..Len(tasks) :
        ExecuteRaised(Exc(cls, p)) =>
            IF FinalizerEscaped
            THEN /\ ~ErrorLogged(Exc(cls, p))
                 /\ trace[Len(trace)].kind # "summary"
            ELSE /\ ErrorLogged(Exc(cls, p))
                 /\ trace[Len(trace)] = SummaryLine(Exc(cls, p))

\* ------------------------------------- properties: sequential execution

\* The tasks whose handler is in progress as children of task l.
InProgressUnder(l) == {k \in 1..Len(stack) : nodes[stack[k]].parent = l}

\* C30: execution inside one TaskList is strictly sequential: at no moment
\* are two handlers of children of the same task in progress, and a child's
\* handler (at any depth of nesting) starts only when no other child of its
\* parent is in progress, that is after the one before it has returned,
\* raised or timed out.
C30_StrictlySequential ==
    /\ [](\A l \in 1..Len(nodes) : Cardinality(InProgressUnder(l)) <= 1)
    /\ [][\A i \in 1..Len(nodes) :
              (stack' = Append(stack, i) /\ stack # <<>>) =>
                  /\ nodes'[i].parent = stack[Len(stack)]
                  /\ InProgressUnder(nodes'[i].parent) = {}]_vars

\* A child of a TaskList is in progress after another child of the same
\* list was executed and has returned.
C30_Witness ==
    /\ Len(stack) = 2
    /\ nodes[stack[1]].kind = "TaskList"
    /\ nodes[stack[2]].parent = stack[1]
    /\ \E j \in 1..Len(nodes) : ~OnStack(j) /\ nodes[j].parent = stack[1]

\* ------------------------------- properties: BaseException of a child

\* After the child that failed first, every enabled child without `always`
\* was skipped and every enabled child with it was executed once; execute
\* raised the recorded exception.
HandledAsFailure ==
    /\ \A j \in 1..Len(tasks) :
           (tasks[j].enabled /\ j > error.origin) =>
               IF tasks[j].always
               THEN calls[j] = 1
               ELSE /\ calls[j] = 0
                    /\ \E q \in HeaderOf(j) :
                           trace[q].suffix = "skipped on error"
    /\ result = Raised(error)

\* C33: a KeyboardInterrupt or SystemExit (any BaseException) raised by a
\* child that runs before any error was recorded is handled like any other
\* failure: the run goes on, later non-finalizers are skipped, later
\* finalizers are executed, and the same exception is raised from the list's
\* execute afterwards.  Stated for lists whose children all have a handler.
C33_BaseExceptionIsAFailure ==
    (pc = "done" /\ AllHandlersBound /\ error.cls = "BaseException") =>
        HandledAsFailure

\* The same of the runs whose loop ran to its end, which are those in which
\* no finalizer raised past its IgnoreErrors.
BaseExceptionIsAFailureUnlessFinalizerEscapes ==
    (LoopCompleted /\ error.cls = "BaseException") => HandledAsFailure

\* ------------------------------------- properties: the list run again

\* The run before this one ended by raising.
RunBeforeFailed == pout # NoCall /\ pout.kind = "raise"

\* C34: the error state of a TaskList is local to one run: a run, also one
\* that follows a run that failed, starts with no recorded error; an error
\* that is recorded was logged in this run; a child is skipped or marked
\* finalizing only after an error line of this run; and a run whose loop
\* ended with no child having failed returns normally.
C34_ErrorLocalToRun ==
    /\ [](error # NoError => ErrorLogged(error))
    /\ [](\A q \in TracePos("header") :
              trace[q].suffix # "" => ErrorBefore(q))
    /\ []((LoopCompleted /\ TracePos("error") = {}) => result = Returned)
    /\ [][(pc # "loop" /\ pc' = "loop") => error' = NoError]_vars

\* A run after a failed run in which every child was executed normally and
\* which returned normally.
C34_Witness ==
    /\ RunBeforeFailed
    /\ pc = "done"
    /\ result = Returned
    /\ Len(tasks) >= 2
    /\ \A p \in 1..Len(tasks) : calls[p] = 1
    /\ \A q \in TracePos("header") : trace[q].suffix = ""

\* --------------------------------- properties: the log-execution flag

\* A call wrapped by decorator class `kind` would log its execution line.
WouldLog(kind) == WrapperLogs([kind |-> kind])

\* C35: there is a single process-wide log-execution flag: after any
\* sequence of enabled(...) calls made through LogExecution or through
\* SideEffect, with dry-run off, a LogExecution-wrapped call and a
\* SideEffect-wrapped call agree on whether the execution line is logged.
C35_SingleLogExecutionFlag ==
    ~DryRunOn => (WouldLog("LogExecution") <=> WouldLog("SideEffect"))

\* The two agree as long as enabled was never called through SideEffect:
\* the subclass then has no attribute of its own and reads its base's.
OneFlagUntilSideEffectEnabled ==
    "should_log_execution" \notin DOMAIN class_attrs["SideEffect"] =>
        (~DryRunOn => (WouldLog("LogExecution") <=> WouldLog("SideEffect")))

\* --------------------------------- properties: the deadline of a list

\* The outer call is over, and its callable was still running `seconds`
\* after the wrapper set its timer.
EndedPastDeadline == ocall.pos = "done" /\ ocall.overran

OwnTimeoutError == Raised(TimeoutError(ocall.seconds, DefaultMessage))

\* C31: a TaskList with a timeout d (ignore_errors false) whose children
\* have not all finished within d seconds ends its execute by raising
\* TimeoutError carrying d, whatever the ignore_errors of its children and
\* whether the deadline fires in a normal child or in a finalizer.
C31_ListDeadlineRaises ==
    (ocall.kind = "TaskList" /\ EndedPastDeadline) =>
        ocall.result = OwnTimeoutError

\* The same of lists whose children have no timeout of their own, do not
\* ignore errors and are not finalizers: nothing swallows the TimeoutError
\* and nothing replaces the list's timer.
ListDeadlineRaisesUnlessSwallowed ==
    (/\ ocall.kind = "TaskList"
     /\ EndedPastDeadline
     /\ \A k \in 1..Len(ocall.kids) :
            /\ ocall.kids[k].seconds = 0
            /\ ~ocall.kids[k].ignore_errors
            /\ ~ocall.kids[k].always) =>
        ocall.result \in {OwnTimeoutError}
                         \cup {Raised(Exc("Exception", k)) : k \in 1..MaxKids}

\* The deadline fired in a child that ignores errors, the child returned,
\* and the list returned normally after its deadline.
DeadlineSwallowedByChild ==
    /\ ocall.kind = "TaskList"
    /\ EndedPastDeadline
    /\ ocall.result = Returned
    /\ \A k \in 1..Len(ocall.kids) : ocall.kids[k].seconds = 0

\* No callable the outer one calls runs under IgnoreErrors.
NothingSwallows ==
    \A k \in 1..Len(ocall.kids) :
        ~ocall.kids[k].ignore_errors /\ ~ocall.kids[k].always

\* What an outer call that ran into its deadline may end with: its own
\* TimeoutError, or the exception a callable raised before the deadline.
DeadlineResults ==
    {OwnTimeoutError} \cup {Raised(Exc("Exception", k)) : k \in 1..MaxKids}

\* C32: when Timeout-wrapped calls are nested, the deadline of the outer
\* one stays in force, while the inner call runs and after it returned: an
\* outer call whose callable was still running `seconds` after the timer
\* was set ends by raising its TimeoutError.
C32_OuterDeadlineInForce ==
    (ocall.nested /\ NothingSwallows /\ EndedPastDeadline) =>
        ocall.result \in DeadlineResults

\* The same of an outer call none of whose callables is Timeout-wrapped.
DeadlineInForceUnlessNested ==
    (/\ \A k \in 1..Len(ocall.kids) : ocall.kids[k].seconds = 0
     /\ NothingSwallows
     /\ EndedPastDeadline) =>
        ocall.result \in DeadlineResults

\* A Timeout-wrapped function called a Timeout-wrapped function, was
\* running past its deadline and returned normally.
OuterDeadlineLostToInner ==
    /\ ocall.kind = "function"
    /\ ocall.nested
    /\ EndedPastDeadline
    /\ ocall.result = Returned

\* C36: a Timeout-wrapped call leaves the alarm state as it found it on
\* every path out of the call (normal return, exception of the callable,
\* deadline): the SIGALRM handler found at entry is installed again and the
\* call's own timer is no longer armed.
C36_AlarmStateRestored ==
    (ocall.pos = "done" /\ icall = NoCall) =>
        /\ sigalrm.handler = ocall.old_handler
        /\ ~sigalrm.armed

\* The same of calls in which no alarm was delivered while a wrapper was
\* outside its try statement.
AlarmStateRestoredUnlessLate ==
    (ocall.pos = "done" /\ icall = NoCall /\ ~ocall.late) =>
        /\ sigalrm.handler = ocall.old_handler
        /\ ~sigalrm.armed

\* The deadline came while the wrapper was in its finally block: the call
\* is over with TimeoutError and the handler of the call is still installed.
HandlerLeftInstalled ==
    /\ ocall.pos = "done"
    /\ ocall.late
    /\ ~ocall.nested
    /\ ocall.result = OwnTimeoutError
    /\ sigalrm.handler = SignalHandler("outer", ocall.seconds)

\* ------------------- SpecParent: the parent reference over execute calls

\* Most tasks and task lists whose execute calls are followed.
MaxFamily == 2

\* A task with its enabled flag and, for stating what earlier calls left,
\* the _parent it had when its last execute call began.
Tasklike(kind, tag, enabled) ==
    [kind |-> kind, tag |-> tag, parent |-> 0, enabled |-> enabled,
     before |-> 0]

\* A Task, a TaskList without tag and one with a tag.
TasklikeConfigs == {c \in NodeConfigs : c.tag \in {None, "A"}}

\* An execute that returns on a disabled task before it sets the parent.
ExecuteCallEnabledOnly(i, parent) ==
    /\ ~OnStack(i)
    /\ Len(stack) < MaxDepth
    /\ parent \in {0} \cup (IF stack = <<>> THEN {} ELSE {stack[Len(stack)]})
    /\ nodes' = [nodes EXCEPT ![i] =
           [@ EXCEPT !.before = nodes[i].parent,
                     !.parent = IF nodes[i].enabled THEN parent
                                ELSE nodes[i].parent]]
    /\ stack' = IF nodes[i].enabled THEN Append(stack, i) ELSE stack
    /\ lastline' = NoCall
    /\ UNCHANGED <<taskVars, shellVars, timedVars, pureVars, pipeVars, alarmVars>>

\* Task.execute(parent): `self._set_parent(parent)`, then `if not
\* self.enabled: return`, then the handler is called.  The call comes from
\* outside any task or from the handler that is running, with that task or
\* with no parent.
ExecuteCall(i, parent) ==
    /\ ~OnStack(i)
    /\ Len(stack) < MaxDepth
    /\ parent \in {0} \cup (IF stack = <<>> THEN {} ELSE {stack[Len(stack)]})
    /\ nodes' = [nodes EXCEPT ![i] =
           [@ EXCEPT !.before = nodes[i].parent, !.parent = parent]]
    /\ stack' = IF nodes[i].enabled THEN Append(stack, i) ELSE stack
    /\ lastline' = NoCall
    /\ UNCHANGED <<taskVars, shellVars, timedVars, pureVars, pipeVars, alarmVars>>

InitParent ==
    /\ TaskIdle
    /\ ShellIdle
    /\ TimedIdle
    /\ PureIdle
    /\ PipeIdle
    /\ AlarmIdle
    /\ nodes \in UNION {[1..n -> {Tasklike(c.kind, c.tag, e) :
                                     c \in TasklikeConfigs, e \in BOOLEAN}] :
                           n \in 1..MaxFamily}
    /\ stack = <<>>
    /\ lastline = NoCall

NextParent ==
    \/ \E i \in 1..Len(nodes) : \E p \in 0..Len(nodes) : ExecuteCall(i, p)
    \/ \E i \in 1..Len(nodes) : Log(i)
    \/ ExecuteReturns

SpecParent == InitParent /\ [][NextParent]_vars

\* The tag text of a TaskList with a tag, nothing otherwise.
OwnTag(i) ==
    IF nodes[i].kind = "TaskList" /\ nodes[i].tag # None
    THEN TagText(nodes[i].tag)
    ELSE <<>>

\* C37: every execute call sets the parent reference anew, also on a
\* disabled task: after execute(parent=P) the log prefix of the task is P's
\* prefix, two spaces and its own tag, and after execute() without parent
\* it is its own tag only (empty for a Task), whatever parent it had before.
C37_ParentResetByExecute ==
    [][\A i \in 1..Len(nodes) : \A p \in 0..Len(nodes) :
           ExecuteCall(i, p) =>
               /\ nodes'[i].parent = p
               /\ LogPrefix(nodes', i) =
                      IF p = 0 THEN OwnTag(i)
                      ELSE LogPrefix(nodes', p) \o TwoSpaces \o OwnTag(i)]_vars

\* A disabled task that had a parent was executed without parent, and the
\* line it then logged has no prefix.
C37_Witness ==
    /\ lastline # NoCall
    /\ LET i == lastline.node
       IN /\ ~nodes[i].enabled
          /\ nodes[i].kind = "Task"
          /\ nodes[i].before # 0
          /\ nodes[i].parent = 0
          /\ lastline.prefix = <<>>

\* ------------------------------------- properties: the duration report

\* The run logged its one 'Finished in' line after every line of the
\* children and before the summary line.
FinishedInLogged ==
    /\ Cardinality(TracePos("duration")) = 1
    /\ \A q \in TracePos("duration") : \A r \in 1..Len(trace) :
           /\ trace[r].kind \notin {"duration", "summary"} => r < q
           /\ trace[r].kind = "summary" => q < r

\* C38: with duration reporting enabled every run of a TaskList logs
\* exactly one `Finished in HH:MM:SS` line, after the last child was
\* processed and before the error summary line and the re-raise, in
\* successful and in failing runs; with it disabled no such line is logged.
C38_DurationLogged ==
    pc = "done" =>
        IF duration THEN FinishedInLogged ELSE TracePos("duration") = {}

\* The same of the runs that leave execute from the end of the loop; a run
\* that leaves it from a finalizer logs no duration line.
DurationLoggedUnlessFinalizer ==
    pc = "done" =>
        IF duration /\ ~FinalizerEscaped THEN FinishedInLogged
        ELSE TracePos("duration") = {}

\* A failing run of a list with duration reporting, ended by a finalizer,
\* that logged no duration line.
DurationLineMissing ==
    /\ pc = "done"
    /\ duration
    /\ FinalizerEscaped
    /\ TracePos("duration") = {}

\* A failing run of a list with duration reporting logged its duration
\* line and then its summary line.
DurationBeforeSummary ==
    /\ pc = "done"
    /\ duration
    /\ Len(trace) >= 2
    /\ trace[Len(trace) - 1] = DurationLine
    /\ trace[Len(trace)].kind = "summary"

\* ------------------- SpecLines: the reader's splitting of a byte stream

\* Longest byte stream read.
MaxBytes == 4

\* The bytes: a letter, b'\r' and b'\n', and their values as integers.
Bytes == {"a", "CR", "LF"}

Ord(byte) == IF byte = "CR" THEN 13 ELSE IF byte = "LF" THEN 10 ELSE 97

ByteStreams == UNION {[1..n -> Bytes] : n \in 0..MaxBytes}

\* A bytes object, and == between two Python values: values of different
\* types are not equal.
BytesValue(bytes) == [type |-> "bytes", v |-> bytes]

PyEq(a, b) == a.type = b.type /\ a.v = b.v

RECURSIVE ReadLineBytes(_, _, _)
\* ShellOutputPipe._read_line on a read_file that still holds `rest`:
\* bytes are read one by one into byteline; after b'\r', when _has_data
\* says so, `peek[0] == b'\n'` compares the next byte, an int, with a bytes
\* object; `byte in b'\r\n'` ends the line.  Gives the line and what is left.
ReadLineBytes(rest, byteline, has_data) ==
    IF rest = <<>> THEN [line |-> byteline, rest |-> rest]
    ELSE LET byte == Head(rest)
             left == Tail(rest)
             line == Append(byteline, byte)
         IN IF /\ byte = "CR" /\ has_data /\ left # <<>>
               /\ PyEq(IntValue(Ord(left[1])), BytesValue(<<"LF">>))
            THEN ReadLineBytes(left, line, has_data)
            ELSE IF byte \in {"CR", "LF"}
            THEN [line |-> line, rest |-> left]
            ELSE ReadLineBytes(left, line, has_data)

\* ShellOutputPipe.run, one iteration with a line read: the callback gets
\* the line.  has_data: what select tells of the pipe at that moment.
ReaderDelivers(has_data) ==
    /\ pin.state = "reading"
    /\ pin.rest # <<>>
    /\ LET r == ReadLineBytes(pin.rest, <<>>, has_data)
       IN /\ pin' = [pin EXCEPT !.rest = r.rest]
          /\ pout' = Append(pout, r.line)
    /\ UNCHANGED <<taskVars, shellVars, timedVars, nestVars, pipeVars, alarmVars>>

\* ShellOutputPipe.run at the end of the stream: `if not line: break`.
ReaderStops ==
    /\ pin.state = "reading"
    /\ pin.rest = <<>>
    /\ pin' = [pin EXCEPT !.state = "eof"]
    /\ UNCHANGED pout
    /\ UNCHANGED <<taskVars, shellVars, timedVars, nestVars, pipeVars, alarmVars>>

\* The writers have written a stream and closed the pipe; no line was read.
InitLines ==
    /\ TaskIdle
    /\ ShellIdle
    /\ TimedIdle
    /\ NestIdle
    /\ PipeIdle
    /\ AlarmIdle
    /\ \E stream \in ByteStreams :
           pin = [stream |-> stream, rest |-> stream, state |-> "reading"]
    /\ pout = <<>>

NextLines ==
    \/ \E has_data \in BOOLEAN : ReaderDelivers(has_data)
    \/ ReaderStops

SpecLines == InitLines /\ [][NextLines]_vars

RECURSIVE Concat(_)
Concat(lines) ==
    IF lines = <<>> THEN <<>> ELSE Head(lines) \o Concat(Tail(lines))

\* Bytes that are no terminators, then one of `terminators`.
EndsWithOneOf(line, terminators) ==
    \E n \in 0..Len(line) :
        /\ \A i \in 1..n : line[i] = "a"
        /\ SubSeq(line, n + 1, Len(line)) \in terminators

\* The lines are the stream cut after each of `terminators`; only the last
\* one may have no terminator.
SplitAt(terminators) ==
    /\ Concat(pout) = pin.stream
    /\ \A k \in 1..Len(pout) :
           EndsWithOneOf(pout[k], IF k = Len(pout)
                                  THEN terminators \cup {<<>>}
                                  ELSE terminators)
    /\ \A k \in 1..Len(pout) : pout[k] # <<>>

\* C39: the reader splits the byte stream into lines, each passed to the
\* callback with its terminator, where '\n', '\r' and the pair '\r\n' each
\* are one terminator: the lines put together are the stream, and a line
\* ending in '\r\n' is one line, not a line ending in '\r' and a line '\n'.
C39_LinesSplit ==
    pin.state = "eof" =>
        /\ SplitAt({<<"LF">>, <<"CR">>, <<"CR", "LF">>})
        /\ \A k \in 1..(Len(pout) - 1) :
               ~(pout[k][Len(pout[k])] = "CR" /\ pout[k + 1] = <<"LF">>)

\* What the reader does: every '\r' and every '\n' ends a line.
LinesSplitAtEveryTerminator ==
    pin.state = "eof" => SplitAt({<<"LF">>, <<"CR">>})

\* The stream 'a\r\n' was delivered as 'a\r' and '\n'.
CrLfDeliveredAsTwoLines ==
    /\ pin.state = "eof"
    /\ pin.stream = <<"a", "CR", "LF">>
    /\ pout = << <<"a", "CR">>, <<"LF">> >>

\* ------------------------- properties: a callback that raises (SpecPipe)

\* The callback of pipe k raised on the line it was given.
CallbackRaised(k) == pipes[k].failed /\ pipes[k].line.utf8

\* C40: when the line callback of a ShellOutputPipe raises, the reader
\* thread ends: no later line is passed to the callback, and a close()
\* after it, also a repeated one, returns without raising and without
\* waiting forever.
C40_CloseAfterCallbackRaised ==
    \A k \in DOMAIN pipes :
        CallbackRaised(k) =>
            /\ pipes[k].state = "terminated"
            /\ pipes[k].passed[Len(pipes[k].passed)] = pipes[k].line.n
            /\ owner.at # "raised"
            /\ (owner.at = "join" /\ owner.streams[owner.closing] = k) =>
                   ENABLED JoinReturns

\* The same without the part on close raising.
ReaderStopsAfterCallbackRaised ==
    \A k \in DOMAIN pipes :
        CallbackRaised(k) =>
            /\ pipes[k].state = "terminated"
            /\ pipes[k].passed[Len(pipes[k].passed)] = pipes[k].line.n
            /\ (owner.at = "join" /\ owner.streams[owner.closing] = k) =>
                   ENABLED JoinReturns

\* close raises only when write_file holds lines and the reader has ended.
CloseRaisesOnlyOnFlush ==
    [][(owner.at # "raised" /\ owner'.at = "raised") =>
           \E k \in DOMAIN pipes : FlushRaises(pipes[k])]_vars

\* The callback raised on the first line, the owner wrote a second line
\* that stayed in write_file, and close raised.
CloseRaisedBrokenPipe ==
    /\ owner # NoCall
    /\ owner.cls = "ShellOutputPipe"
    /\ owner.at = "raised"
    /\ CallbackRaised(1)
    /\ pipes[1].passed = <<1>>
    /\ pipes[1].written = 2

=============================================================================
